---- MODULE Spec2Model ----
(***************************************************************************)
(* Verification model of NYCU-SDC/CD-service.                              *)
(*                                                                         *)
(*   Part I   CDWorkflow, the deployment step sequencer, together with the *)
(*            activity retry policy it hands to the workflow engine.       *)
(*   Part II  the Infisical client's secret cache (fetchSecretRaw,         *)
(*            FetchSecretsByMapping).                                      *)
(*   Part III the remote command builder (SSHActivity) and the executor's  *)
(*            outer quoting, with a POSIX shell reading of the result.     *)
(*                                                                         *)
(* Each part has its own specification; a part leaves the variables of the *)
(* other parts untouched.                                                  *)
(***************************************************************************)
EXTENDS Integers, Sequences, FiniteSets, TLC

VARIABLES
    \* Part I: one run of CDWorkflow
    req,        \* the DeployRequest fields CDWorkflow reads
    pc,         \* position of CDWorkflow
    outcome,    \* per activity: what the future's Get reports
    attempt,    \* per activity: attempts started by the engine
    running,    \* activities with an attempt executing right now
    calls,      \* ExecuteActivity calls issued by CDWorkflow, in order
    starts,     \* activity attempts started, in order
    result,     \* what CDWorkflow returned
    \* Part II: the Infisical client and its callers
    now,        \* time.Now(), in minutes
    items,      \* secretCache.items: cache key -> cacheItem
    cpc,        \* per caller: position inside FetchSecretsByMapping / fetchSecretRaw
    cargs,      \* per caller: arguments of its FetchSecretsByMapping call
    ci,         \* per caller: index of the mapping being fetched
    cres,       \* per caller: the result map built so far
    cresp,      \* per caller: the HTTP response of its last live fetch
    cval,       \* per caller: secretValue decoded from that response
    clook,      \* per caller: what its last cache check saw
    cret,       \* per caller: what FetchSecretsByMapping returned
    stored,     \* history: per cache key, value and time of the last successful store
    cheld,      \* per caller: cache locks acquired minus cache locks released
    \* Part III: RunSSHDeploy building and sending one command
    breq,       \* the DeployRequest fields the builder reads
    bcfg,       \* the SSHConfig fields the activity reads
    bsecrets,   \* the resolved secrets handed to the activity
    bpc,        \* position of RunSSHDeploy
    command,    \* the command string built for this request
    rebuilt,    \* the command string of a second build from the same inputs
    sent,       \* what Execute passed to session.CombinedOutput
    setenv,     \* what Execute passed to session.Setenv, by key
    bret,       \* the error RunSSHDeploy returned
    bexec,      \* what Execute returned: the captured output, and whether an error
    bout,       \* the output RunSSHDeploy returned
    \* Part IV: the remote host running the command it was sent
    rtoks,      \* the script sh -c was given, as tokens
    rip,        \* the next token to read
    rrc,        \* exit status of the last command
    rlog,       \* the simple commands run so far: where and with what status
    rtip,       \* the commit the branch points at in the repository
    rdir,       \* whether the deploy directory exists on the host
    rrev,       \* the revision checked out in the workspace
    rscript,    \* the revision the script was started from
    rstate,     \* whether the shell is running or has exited
    \* Part V: config.Load and one call of Client.Execute
    xfile,      \* what config.yaml says about ssh, or that there is no file
    xenv,       \* the value of SSH_STRICT_HOST_KEY_CHECKING in the environment
    xknown,     \* the known-hosts file: lists the host, does not, or is missing
    xstrict,    \* config.SSH.StrictHostKeyChecking
    xverify,    \* the HostKeyCallback Execute dials with
    xwarn,      \* the warnings logged, and the Setenv failures logged
    xpc,        \* position of the caller inside Load / Execute
    xconn,      \* the SSH connection
    xsess,      \* the SSH session
    xctx,       \* the caller's context
    xgo,        \* position of the goroutine started by executeWithContext
    xres,       \* the result the goroutine got from CombinedOutput
    xchan,      \* the contents of resultChan
    xremote,    \* the remote command: not started, running, or its exit status
    xout,       \* chunks of output the session has captured
    xcap,       \* history: chunks captured when executeWithContext returned
    xret,       \* what Execute returned
    \* Part VI: the DNS step
    dmap,       \* IPResolver.mappings
    dzone,      \* the zone at the DNS provider: name -> content of its A record
    dargs,      \* the arguments of EnsureDNSRecord
    dpc,        \* position inside EnsureDNSRecord / EnsureRecord
    dip,        \* the address EnsureRecord was called with
    dfound,     \* what findRecord returned
    dreqs,      \* the API requests issued, in order
    dcall,      \* calls begun
    dret,       \* per call that returned: its error and the zone it left
    \* Part VII: two runs on the remote host
    hreq,       \* per run: method, environment and repository of its request
    hpc,        \* per run: the step of its command that is next
    hfiles,     \* the directories below the base path that exist
    \* Part VIII: the HTTP front door
    wreq,       \* the request being served: its token header and its body
    wpc,        \* who has the request: the middleware, the handler, nobody
    wresp,      \* the response written for it
    wruns,      \* the workflow runs ExecuteWorkflow started, in order
    wn          \* requests received

wfVars == <<req, pc, outcome, attempt, running, calls, starts, result>>

cacheVars == <<now, items, cpc, cargs, ci, cres, cresp, cval, clook, cret, stored, cheld>>

buildVars == <<breq, bcfg, bsecrets, bpc, command, rebuilt, sent, setenv, bret,
               bexec, bout>>

remoteVars == <<rtoks, rip, rrc, rlog, rtip, rdir, rrev, rscript, rstate>>

execVars == <<xfile, xenv, xknown, xstrict, xverify, xwarn, xpc, xconn, xsess,
              xctx, xgo, xres, xchan, xremote, xout, xcap, xret>>

dnsVars == <<dmap, dzone, dargs, dpc, dip, dfound, dreqs, dcall, dret>>

hostVars == <<hreq, hpc, hfiles>>

doorVars == <<wreq, wpc, wresp, wruns, wn>>

vars == <<wfVars, cacheVars, buildVars, remoteVars, execVars, dnsVars, hostVars, doorVars>>

nonWfVars == <<cacheVars, buildVars, remoteVars, execVars, dnsVars, hostVars, doorVars>>

nonCacheVars == <<wfVars, buildVars, remoteVars, execVars, dnsVars, hostVars, doorVars>>

nonBuildVars == <<wfVars, cacheVars, remoteVars, execVars, dnsVars, hostVars, doorVars>>

nonRemoteVars == <<wfVars, cacheVars, execVars, dnsVars, hostVars, doorVars>>

nonExecVars == <<wfVars, cacheVars, buildVars, remoteVars, dnsVars, hostVars, doorVars>>

nonHostVars == <<wfVars, cacheVars, buildVars, remoteVars, execVars, dnsVars, doorVars>>

nonDnsVars == <<wfVars, cacheVars, buildVars, remoteVars, execVars, hostVars, doorVars>>

nonDoorVars == <<wfVars, cacheVars, buildVars, remoteVars, execVars, dnsVars, hostVars>>

(***************************************************************************)
(* Part I.  CDWorkflow                                                     *)
(***************************************************************************)

\* internal/activity/constants.go
ActivityFetchInfisicalSecrets == "FetchInfisicalSecrets"
ActivityRunSSHDeploy == "RunSSHDeploy"
ActivityEnsureDNSRecord == "EnsureDNSRecord"
ActivityRemoveDNSRecord == "RemoveDNSRecord"
ActivitySendDiscordNotification == "SendDiscordNotification"

Activities ==
    { ActivityFetchInfisicalSecrets, ActivityRunSSHDeploy, ActivityEnsureDNSRecord,
      ActivityRemoveDNSRecord, ActivitySendDiscordNotification }

\* domain.MethodDeploy / domain.MethodCleanup
MethodDeploy == "deploy"
MethodCleanup == "cleanup"

\* RetryPolicy.MaximumAttempts of the ActivityOptions CDWorkflow installs
MaximumAttempts == 3

\* The request fields that CDWorkflow branches on.
DeployRequests ==
    [ Method : {MethodDeploy, MethodCleanup},
      InjectSecretEnable : BOOLEAN,
      SetupDomainEnable : BOOLEAN,
      SetupDomainName : {"", "app.example.com"},
      SetupDomainValue : {"", "WEB_IP"},
      CleanupDomainEnable : BOOLEAN,
      CleanupDomainName : {"", "app.example.com"},
      NotifyDiscordEnable : BOOLEAN ]

\* The error an activity's future reports once its attempts are used up.
ErrOf(a) == "error: " \o a

NoErr == "nil"

WfInit ==
    /\ req \in DeployRequests
    /\ pc = "Start"
    /\ outcome = [a \in Activities |-> "none"]
    /\ attempt = [a \in Activities |-> 0]
    /\ running = {}
    /\ calls = <<>>
    /\ starts = <<>>
    /\ result = "none"

\* workflow.ExecuteActivity(ctx, name, args...): a future is created and the
\* engine is asked to run the activity under the installed ActivityOptions.
ExecuteActivity(a, arg) ==
    /\ outcome' = [outcome EXCEPT ![a] = "pending"]
    /\ calls' = Append(calls, [name |-> a, arg |-> arg])

\* (mutation) Get returning while the activity is still pending
GetReturned_NoWait(a) == outcome[a] # "none"

\* Future.Get blocks the workflow until the activity has a final outcome.
GetReturned(a) == outcome[a] \in {"ok", "err"}

\* ---- the workflow engine running an activity under the retry policy ----

StartAttempt(a) ==
    /\ outcome[a] = "pending"
    /\ a \notin running
    /\ attempt[a] < MaximumAttempts
    /\ running' = running \cup {a}
    /\ attempt' = [attempt EXCEPT ![a] = @ + 1]
    /\ starts' = Append(starts, a)
    /\ UNCHANGED <<req, pc, outcome, calls, result>>
    /\ UNCHANGED nonWfVars

AttemptSucceeds(a) ==
    /\ a \in running
    /\ running' = running \ {a}
    /\ outcome' = [outcome EXCEPT ![a] = "ok"]
    /\ UNCHANGED <<req, pc, attempt, calls, starts, result>>
    /\ UNCHANGED nonWfVars

\* (mutation) a failed attempt never reported: the future stays pending
AttemptFails_NeverReported(a) ==
    /\ a \in running
    /\ running' = running \ {a}
    /\ outcome' = [outcome EXCEPT ![a] = "pending"]
    /\ UNCHANGED <<req, pc, attempt, calls, starts, result>>
    /\ UNCHANGED nonWfVars

\* A failed attempt is retried until MaximumAttempts attempts were made; only
\* then does the future report the error.
AttemptFails(a) ==
    /\ a \in running
    /\ running' = running \ {a}
    /\ outcome' = [outcome EXCEPT ![a] =
                      IF attempt[a] < MaximumAttempts THEN "pending" ELSE "err"]
    /\ UNCHANGED <<req, pc, attempt, calls, starts, result>>
    /\ UNCHANGED nonWfVars

\* ---- CDWorkflow, one action per stretch between two blocking Get calls ----

\* Step 1: if req.Setup.InjectSecret.Enable, fetch the secrets.
WfFetchSecrets ==
    /\ pc = "Start"
    /\ req.InjectSecretEnable
    /\ ExecuteActivity(ActivityFetchInfisicalSecrets, "")
    /\ pc' = "AwaitFetch"
    /\ UNCHANGED <<req, attempt, running, starts, result>>
    /\ UNCHANGED nonWfVars

WfSkipFetch ==
    /\ pc = "Start"
    /\ ~req.InjectSecretEnable
    /\ pc' = "Step2"
    /\ UNCHANGED <<req, outcome, attempt, running, calls, starts, result>>
    /\ UNCHANGED nonWfVars

\* (mutation) the fetch error is logged but the run carries on
WfFetchReturned_NoStop ==
    /\ pc = "AwaitFetch"
    /\ GetReturned(ActivityFetchInfisicalSecrets)
    /\ pc' = "Step2"
    /\ UNCHANGED <<req, outcome, attempt, running, calls, starts, result>>
    /\ UNCHANGED nonWfVars

WfFetchReturned ==
    /\ pc = "AwaitFetch"
    /\ GetReturned(ActivityFetchInfisicalSecrets)
    /\ IF outcome[ActivityFetchInfisicalSecrets] = "err"
         THEN /\ ExecuteActivity(ActivitySendDiscordNotification, "Failed to fetch secrets")
              /\ pc' = "AwaitFetchFailureNotify"
         ELSE /\ pc' = "Step2"
              /\ UNCHANGED <<outcome, calls>>
    /\ UNCHANGED <<req, attempt, running, starts, result>>
    /\ UNCHANGED nonWfVars

\* the notification's own error is only logged; return err
WfFetchFailureNotified ==
    /\ pc = "AwaitFetchFailureNotify"
    /\ GetReturned(ActivitySendDiscordNotification)
    /\ pc' = "Failed"
    /\ result' = ErrOf(ActivityFetchInfisicalSecrets)
    /\ UNCHANGED <<req, outcome, attempt, running, calls, starts>>
    /\ UNCHANGED nonWfVars

\* (mutation) Step 2 runs again after a failed execution
WfRunSSHDeploy_Again ==
    /\ \/ pc = "Step2"
       \/ pc = "AwaitSSH" /\ outcome[ActivityRunSSHDeploy] = "err"
    /\ ExecuteActivity(ActivityRunSSHDeploy, "")
    /\ pc' = "AwaitSSH"
    /\ UNCHANGED <<req, attempt, running, starts, result>>
    /\ UNCHANGED nonWfVars

\* Step 2: execute the SSH deployment / cleanup.
WfRunSSHDeploy ==
    /\ pc = "Step2"
    /\ ExecuteActivity(ActivityRunSSHDeploy, "")
    /\ pc' = "AwaitSSH"
    /\ UNCHANGED <<req, attempt, running, starts, result>>
    /\ UNCHANGED nonWfVars

\* (mutation) a failed execution returns the error without notifying
WfSSHReturned_NoNotify ==
    /\ pc = "AwaitSSH"
    /\ GetReturned(ActivityRunSSHDeploy)
    /\ IF outcome[ActivityRunSSHDeploy] = "err"
         THEN /\ pc' = "Failed"
              /\ result' = ErrOf(ActivityRunSSHDeploy)
         ELSE /\ pc' = "Step3"
              /\ UNCHANGED result
    /\ UNCHANGED <<req, outcome, attempt, running, calls, starts>>
    /\ UNCHANGED nonWfVars

WfSSHReturned ==
    /\ pc = "AwaitSSH"
    /\ GetReturned(ActivityRunSSHDeploy)
    /\ IF outcome[ActivityRunSSHDeploy] = "err"
         THEN /\ ExecuteActivity(ActivitySendDiscordNotification, "Deployment Failed")
              /\ pc' = "AwaitSSHFailureNotify"
         ELSE /\ pc' = "Step3"
              /\ UNCHANGED <<outcome, calls>>
    /\ UNCHANGED <<req, attempt, running, starts, result>>
    /\ UNCHANGED nonWfVars

\* (mutation) a failed failure notification replaces the error returned
WfSSHFailureNotified_NotifyError ==
    /\ pc = "AwaitSSHFailureNotify"
    /\ GetReturned(ActivitySendDiscordNotification)
    /\ pc' = "Failed"
    /\ result' = IF outcome[ActivitySendDiscordNotification] = "err"
                 THEN ErrOf(ActivitySendDiscordNotification)
                 ELSE ErrOf(ActivityRunSSHDeploy)
    /\ UNCHANGED <<req, outcome, attempt, running, calls, starts>>
    /\ UNCHANGED nonWfVars

WfSSHFailureNotified ==
    /\ pc = "AwaitSSHFailureNotify"
    /\ GetReturned(ActivitySendDiscordNotification)
    /\ pc' = "Failed"
    /\ result' = ErrOf(ActivityRunSSHDeploy)
    /\ UNCHANGED <<req, outcome, attempt, running, calls, starts>>
    /\ UNCHANGED nonWfVars

\* Step 3: handle DNS (if enabled).
WantsEnsureDNS ==
    /\ req.Method = MethodDeploy /\ req.SetupDomainEnable
    /\ req.SetupDomainName # "" /\ req.SetupDomainValue # ""

\* (mutation) the removal branch taken without looking at the method
WantsRemoveDNS_AnyMethod ==
    /\ ~(req.Method = MethodDeploy /\ req.SetupDomainEnable)
    /\ req.CleanupDomainEnable
    /\ req.CleanupDomainName # ""

WantsRemoveDNS ==
    /\ ~(req.Method = MethodDeploy /\ req.SetupDomainEnable)
    /\ req.Method = MethodCleanup /\ req.CleanupDomainEnable
    /\ req.CleanupDomainName # ""

WfEnsureDNS ==
    /\ pc = "Step3"
    /\ WantsEnsureDNS
    /\ ExecuteActivity(ActivityEnsureDNSRecord, "")
    /\ pc' = "AwaitDNS"
    /\ UNCHANGED <<req, attempt, running, starts, result>>
    /\ UNCHANGED nonWfVars

WfRemoveDNS ==
    /\ pc = "Step3"
    /\ WantsRemoveDNS
    /\ ExecuteActivity(ActivityRemoveDNSRecord, "")
    /\ pc' = "AwaitDNS"
    /\ UNCHANGED <<req, attempt, running, starts, result>>
    /\ UNCHANGED nonWfVars

WfSkipDNS ==
    /\ pc = "Step3"
    /\ ~WantsEnsureDNS
    /\ ~WantsRemoveDNS
    /\ pc' = "Step4"
    /\ UNCHANGED <<req, outcome, attempt, running, calls, starts, result>>
    /\ UNCHANGED nonWfVars

\* (mutation) a DNS error fails the run
WfDNSReturned_Fatal ==
    /\ pc = "AwaitDNS"
    /\ \/ GetReturned(ActivityEnsureDNSRecord)
       \/ GetReturned(ActivityRemoveDNSRecord)
    /\ IF "err" \in {outcome[ActivityEnsureDNSRecord], outcome[ActivityRemoveDNSRecord]}
         THEN /\ pc' = "Failed"
              /\ result' = ErrOf(ActivityEnsureDNSRecord)
         ELSE /\ pc' = "Step4"
              /\ UNCHANGED result
    /\ UNCHANGED <<req, outcome, attempt, running, calls, starts>>
    /\ UNCHANGED nonWfVars

\* a DNS error is only logged
WfDNSReturned ==
    /\ pc = "AwaitDNS"
    /\ \/ GetReturned(ActivityEnsureDNSRecord)
       \/ GetReturned(ActivityRemoveDNSRecord)
    /\ pc' = "Step4"
    /\ UNCHANGED <<req, outcome, attempt, running, calls, starts, result>>
    /\ UNCHANGED nonWfVars

\* (mutation) the success notification scheduled whatever the toggle says
WfNotifySuccess_IgnoreToggle ==
    /\ pc = "Step4"
    /\ ExecuteActivity(ActivitySendDiscordNotification, "Deployment Successful")
    /\ pc' = "AwaitNotify"
    /\ UNCHANGED <<req, attempt, running, starts, result>>
    /\ UNCHANGED nonWfVars

\* Step 4: success notification.
WfNotifySuccess ==
    /\ pc = "Step4"
    /\ req.NotifyDiscordEnable
    /\ ExecuteActivity(ActivitySendDiscordNotification, "Deployment Successful")
    /\ pc' = "AwaitNotify"
    /\ UNCHANGED <<req, attempt, running, starts, result>>
    /\ UNCHANGED nonWfVars

WfSkipNotify ==
    /\ pc = "Step4"
    /\ ~req.NotifyDiscordEnable
    /\ pc' = "Done"
    /\ result' = NoErr
    /\ UNCHANGED <<req, outcome, attempt, running, calls, starts>>
    /\ UNCHANGED nonWfVars

\* a notification error is only logged; return nil
WfNotifyReturned ==
    /\ pc = "AwaitNotify"
    /\ GetReturned(ActivitySendDiscordNotification)
    /\ pc' = "Done"
    /\ result' = NoErr
    /\ UNCHANGED <<req, outcome, attempt, running, calls, starts>>
    /\ UNCHANGED nonWfVars

CDWorkflow ==
    \/ WfFetchSecrets
    \/ WfSkipFetch
    \/ WfFetchReturned
    \/ WfFetchFailureNotified
    \/ WfRunSSHDeploy
    \/ WfSSHReturned
    \/ WfSSHFailureNotified
    \/ WfEnsureDNS
    \/ WfRemoveDNS
    \/ WfSkipDNS
    \/ WfDNSReturned
    \/ WfNotifySuccess
    \/ WfSkipNotify
    \/ WfNotifyReturned

Engine ==
    \E a \in Activities :
        \/ StartAttempt(a)
        \/ AttemptSucceeds(a)
        \/ AttemptFails(a)

WfNext == CDWorkflow \/ Engine

(***************************************************************************)
(* Part I: properties                                                      *)
(***************************************************************************)

CallCount(a) == Cardinality({i \in DOMAIN calls : calls[i].name = a})

CallsWithArg(a, arg) ==
    Cardinality({i \in DOMAIN calls : calls[i] = [name |-> a, arg |-> arg]})

Terminal == pc \in {"Done", "Failed"}

FetchFailed == outcome[ActivityFetchInfisicalSecrets] = "err"

SSHFailed == outcome[ActivityRunSSHDeploy] = "err"

SSHSucceeded == outcome[ActivityRunSSHDeploy] = "ok"

\* C1 as stated: after a failed secret fetch the run has ended in Failed with
\* the fetch error, exactly ONE failure-notification attempt was made and the
\* remote command was never executed.
C1_ExactlyOneNotifyAttempt ==
    (pc = "Failed" /\ FetchFailed) =>
        /\ result = ErrOf(ActivityFetchInfisicalSecrets)
        /\ attempt[ActivitySendDiscordNotification] = 1
        /\ attempt[ActivityRunSSHDeploy] = 0

\* C1 (amended): in a run with secret injection enabled, a failed secret fetch
\* leads to Failed with the fetch error; exactly one failure notification is
\* scheduled, the engine attempts it at least once and at most MaximumAttempts
\* times (more than once only after a failed send); the remote command is
\* neither scheduled nor attempted.
C1_FetchFailureHardStop ==
    /\ [](FetchFailed =>
            /\ req.InjectSecretEnable
            /\ pc \in {"AwaitFetch", "AwaitFetchFailureNotify", "Failed"}
            /\ CallCount(ActivityRunSSHDeploy) = 0
            /\ attempt[ActivityRunSSHDeploy] = 0)
    /\ []((FetchFailed /\ pc = "Failed") =>
            /\ result = ErrOf(ActivityFetchInfisicalSecrets)
            /\ CallCount(ActivitySendDiscordNotification) = 1
            /\ CallsWithArg(ActivitySendDiscordNotification, "Failed to fetch secrets") = 1
            /\ attempt[ActivitySendDiscordNotification] \in 1..MaximumAttempts
            /\ (outcome[ActivitySendDiscordNotification] = "ok"
                  \/ attempt[ActivitySendDiscordNotification] = MaximumAttempts))
    /\ (FetchFailed ~> (pc = "Failed"))

C1_Witness ==
    /\ pc = "Failed"
    /\ FetchFailed
    /\ attempt[ActivitySendDiscordNotification] = MaximumAttempts
    /\ outcome[ActivitySendDiscordNotification] = "err"

\* C2: the run reports success exactly when the remote command execution
\* succeeded; after that success neither a DNS failure nor a notification
\* failure turns the result into an error.
C2_SuccessIffRemoteSucceeded ==
    /\ Terminal => (result = NoErr <=> SSHSucceeded)
    /\ SSHSucceeded => result \in {"none", NoErr}
    /\ SSHSucceeded => pc # "Failed"

C2_Witness ==
    /\ pc = "Done"
    /\ result = NoErr
    /\ outcome[ActivityEnsureDNSRecord] = "err"
    /\ outcome[ActivitySendDiscordNotification] = "err"

\* C3: a failed remote command execution is followed by a failure
\* notification attempt; no DNS action and no success notification is ever
\* scheduled; the run ends in Failed with the execution error.
C3_RemoteFailureHardStop ==
    /\ [](SSHFailed =>
            /\ pc \in {"AwaitSSH", "AwaitSSHFailureNotify", "Failed"}
            /\ CallCount(ActivityEnsureDNSRecord) = 0
            /\ CallCount(ActivityRemoveDNSRecord) = 0
            /\ attempt[ActivityEnsureDNSRecord] = 0
            /\ attempt[ActivityRemoveDNSRecord] = 0
            /\ CallsWithArg(ActivitySendDiscordNotification, "Deployment Successful") = 0)
    /\ []((SSHFailed /\ pc = "Failed") =>
            /\ result = ErrOf(ActivityRunSSHDeploy)
            /\ CallsWithArg(ActivitySendDiscordNotification, "Deployment Failed") = 1
            /\ attempt[ActivitySendDiscordNotification] >= 1)
    /\ (SSHFailed ~> (pc = "Failed"))

C3_Witness ==
    /\ pc = "Failed"
    /\ SSHFailed
    /\ req.SetupDomainEnable
    /\ req.NotifyDiscordEnable
    /\ attempt[ActivitySendDiscordNotification] >= 1

\* Position of an activity in the fixed step order.
StepRank(a) ==
    CASE a = ActivityFetchInfisicalSecrets -> 1
      [] a = ActivityRunSSHDeploy -> 2
      [] a = ActivityEnsureDNSRecord -> 3
      [] a = ActivityRemoveDNSRecord -> 3
      [] a = ActivitySendDiscordNotification -> 4

\* C4: at most one step executes at a time; attempts start in the order
\* fetch-secrets, execute-remote-command, DNS action, notification; the remote
\* command starts only after a successful secret fetch (when enabled); DNS
\* and the success notification start only after the remote command succeeded.
C4_StrictStepOrder ==
    /\ Cardinality(running) <= 1
    /\ \A i, j \in DOMAIN starts : i < j => StepRank(starts[i]) <= StepRank(starts[j])
    /\ \A i, j \in DOMAIN calls : i < j => StepRank(calls[i].name) < StepRank(calls[j].name)
    /\ (attempt[ActivityRunSSHDeploy] > 0 /\ req.InjectSecretEnable) =>
            outcome[ActivityFetchInfisicalSecrets] = "ok"
    /\ (\/ attempt[ActivityEnsureDNSRecord] > 0
        \/ attempt[ActivityRemoveDNSRecord] > 0
        \/ CallsWithArg(ActivitySendDiscordNotification, "Deployment Successful") > 0) =>
            SSHSucceeded

C4_Witness ==
    /\ pc = "Done"
    /\ req.InjectSecretEnable
    /\ attempt[ActivityFetchInfisicalSecrets] = 2
    /\ attempt[ActivityRunSSHDeploy] = 2
    /\ attempt[ActivityRemoveDNSRecord] = 1
    /\ attempt[ActivitySendDiscordNotification] = 1

cacheTTL == 5

\* the clock stops here
MaxTime == 5

\* concurrent deployment runs calling the one shared client
Procs == {"run1", "run2"}

MappingDB == [Path |-> "/app", SecretName |-> "DB_PASSWORD", EnvName |-> "DB_PASSWORD"]

MappingAPI == [Path |-> "/app", SecretName |-> "API_KEY", EnvName |-> "API_KEY"]

\* req.Setup.InjectSecret.Secrets of the requests in flight
MappingLists == { <<MappingDB>>, <<MappingDB, MappingAPI>> }

Workspaces == {"cd-service"}

Environments == {"dev"}

\* what the secret source currently holds
SecretValues == {"s3cret"}

EmptyMap == [x \in {} |-> ""]

MapPut(f, k, v) == [x \in DOMAIN f \cup {k} |-> IF x = k THEN v ELSE f[x]]

\* cacheKey := fmt.Sprintf("%s:%s:%s:%s", workspaceSlug, environment, secretPath, secretName)
cacheKey(workspaceSlug, environment, secretPath, secretName) ==
    workspaceSlug \o ":" \o environment \o ":" \o secretPath \o ":" \o secretName

\* What httpClient.Do and io.ReadAll can hand back.  body is the shape of the
\* response body, value the secret value it carries (if it carries one):
\*   secret_object       {"secret": {"key": ..., "value": v}}
\*   object_no_secret    a JSON object without a "secret" member
\*   secret_bad_type_val {"secret": <not an object>, "value": v}
\*   secret_bad_type     {"secret": <not an object>}
\*   bare_string         "v"
\*   not_json            an HTML or text page
Bodies ==
    { "secret_object", "object_no_secret", "secret_bad_type_val",
      "secret_bad_type", "bare_string", "not_json" }

Responses ==
    { [transport |-> "error", read |-> "n/a", status |-> 0, body |-> "n/a", value |-> ""],
      [transport |-> "ok", read |-> "error", status |-> 200, body |-> "n/a", value |-> ""] }
    \cup [transport : {"ok"}, read : {"ok"}, status : {404}, body : {"not_json"}, value : {""}]
    \cup [transport : {"ok"}, read : {"ok"}, status : {200},
          body : {"secret_object", "secret_bad_type_val", "bare_string"},
          value : SecretValues]
    \cup [transport : {"ok"}, read : {"ok"}, status : {200},
          body : {"object_no_secret", "secret_bad_type", "not_json"}, value : {""}]

NoResponse == [transport |-> "none", read |-> "n/a", status |-> 0, body |-> "n/a", value |-> ""]

\* lines 204-270: from the response to (secretValue, err)
DecodeResponse(r) ==
    IF r.transport # "ok" THEN [ok |-> FALSE, value |-> "", err |-> "failed to send request"]
    ELSE IF r.read # "ok" THEN [ok |-> FALSE, value |-> "", err |-> "failed to read response body"]
    ELSE IF r.status # 200 THEN [ok |-> FALSE, value |-> "", err |-> "Infisical API returned status"]
    ELSE IF r.body = "secret_object" THEN [ok |-> TRUE, value |-> r.value, err |-> "nil"]
    \* json.Unmarshal succeeds on any JSON object; a missing member stays ""
    ELSE IF r.body = "object_no_secret" THEN [ok |-> TRUE, value |-> "", err |-> "nil"]
    \* Unmarshal failed, json.Valid: the alternative {"value": ...} form
    ELSE IF r.body = "secret_bad_type_val" THEN [ok |-> TRUE, value |-> r.value, err |-> "nil"]
    ELSE IF r.body \in {"secret_bad_type", "bare_string"}
        THEN [ok |-> FALSE, value |-> "", err |-> "failed to decode response"]
    ELSE [ok |-> FALSE, value |-> "", err |-> "failed to decode response: invalid JSON"]

CacheIdle ==
    /\ now = 0
    /\ items = EmptyMap
    /\ cpc = [p \in Procs |-> "idle"]
    /\ cargs = [p \in Procs |-> [workspaceSlug |-> "", environment |-> "", mappings |-> <<>>] ]
    /\ ci = [p \in Procs |-> 0]
    /\ cres = [p \in Procs |-> EmptyMap]
    /\ cresp = [p \in Procs |-> NoResponse]
    /\ cval = [p \in Procs |-> ""]
    /\ clook = [p \in Procs |-> "none"]
    /\ cret = [p \in Procs |-> [isNil |-> TRUE, secrets |-> EmptyMap, err |-> "none"]]
    /\ stored = EmptyMap
    /\ cheld = [p \in Procs |-> 0]

\* NewClient: the cache starts empty
CacheInit == CacheIdle

CurrentMapping(p) == cargs[p].mappings[ci[p]]

CurrentKey(p) ==
    cacheKey(cargs[p].workspaceSlug, cargs[p].environment,
             CurrentMapping(p).Path, CurrentMapping(p).SecretName)

Tick ==
    /\ now < MaxTime
    /\ now' = now + 1
    /\ UNCHANGED <<items, cpc, cargs, ci, cres, cresp, cval, clook, cret, stored>>
    /\ UNCHANGED cheld
    /\ UNCHANGED nonCacheVars

\* FetchSecretsByMapping is called with one of these mapping lists:
\* result := make(map[string]string)
BeginWith(p, lists) ==
    /\ cpc[p] \in {"idle", "returned"}
    /\ \E w \in Workspaces, e \in Environments, ms \in lists :
          cargs' = [cargs EXCEPT ![p] = [workspaceSlug |-> w, environment |-> e, mappings |-> ms]]
    /\ ci' = [ci EXCEPT ![p] = 1]
    /\ cres' = [cres EXCEPT ![p] = EmptyMap]
    /\ cresp' = [cresp EXCEPT ![p] = NoResponse]
    /\ cval' = [cval EXCEPT ![p] = ""]
    /\ clook' = [clook EXCEPT ![p] = "none"]
    /\ cret' = [cret EXCEPT ![p] = [isNil |-> TRUE, secrets |-> EmptyMap, err |-> "none"]]
    /\ cpc' = [cpc EXCEPT ![p] = "lookup"]
    /\ UNCHANGED <<now, items, stored>>
    /\ UNCHANGED cheld
    /\ UNCHANGED nonCacheVars

Begin(p) == BeginWith(p, MappingLists)

\* (mutation) an entry stays usable at the instant it expires
Usable_NotAfter(item) == now <= item.expiresAt

\* time.Now().Before(item.expiresAt)
Usable(item) == now < item.expiresAt

\* fetchSecretRaw, lines 159-170: how often the cache check calls RUnlock
\* after its one RLock.  Line 162 releases for an unexpired entry; line 170
\* releases on every path that did not return at line 166.
RUnlocks(p) ==
    LET k == CurrentKey(p)
        name == CurrentMapping(p).SecretName
        unexpired == k \in DOMAIN items /\ Usable(items[k])
        returned == unexpired /\ name \in DOMAIN items[k].secrets
    IN  (IF unexpired THEN 1 ELSE 0) + (IF returned THEN 0 ELSE 1)

\* fetchSecretRaw, lines 158-170: the cache check under the read lock.  An
\* unexpired entry that lacks secretName falls through to a second RUnlock,
\* which is a fatal runtime error for the whole process.
Lookup(p) ==
    /\ cpc[p] = "lookup"
    /\ LET k == CurrentKey(p)
           name == CurrentMapping(p).SecretName
       IN  IF k \in DOMAIN items /\ Usable(items[k])
             THEN IF name \in DOMAIN items[k].secrets
                    THEN /\ cval' = [cval EXCEPT ![p] = items[k].secrets[name]]
                         /\ cpc' = [cpc EXCEPT ![p] = "got"]
                         /\ clook' = [clook EXCEPT ![p] = "hit"]
                    ELSE /\ cpc' = [q \in Procs |-> "crashed"]
                         /\ clook' = [clook EXCEPT ![p] = "inconsistent"]
                         /\ UNCHANGED cval
             ELSE /\ cpc' = [cpc EXCEPT ![p] = "live"]
                  /\ clook' = [clook EXCEPT ![p] = IF k \in DOMAIN items THEN "expired" ELSE "miss"]
                  /\ UNCHANGED cval
    /\ cheld' = [cheld EXCEPT ![p] = @ + 1 - RUnlocks(p)]
    /\ UNCHANGED <<now, items, cargs, ci, cres, cresp, cret, stored>>
    /\ UNCHANGED nonCacheVars

\* (mutation) a failed fetch is cached as an empty value
LiveFetch_CacheOnError(p) ==
    /\ cpc[p] = "live"
    /\ \E r \in Responses :
          /\ cresp' = [cresp EXCEPT ![p] = r]
          /\ cval' = [cval EXCEPT ![p] = DecodeResponse(r).value]
          /\ cpc' = [cpc EXCEPT ![p] = "store"]
    /\ UNCHANGED <<now, items, cargs, ci, cres, clook, cret, stored>>
    /\ UNCHANGED cheld
    /\ UNCHANGED nonCacheVars

\* fetchSecretRaw, lines 172-270: the live fetch, with no lock held
LiveFetch(p) ==
    /\ cpc[p] = "live"
    /\ \E r \in Responses :
          /\ cresp' = [cresp EXCEPT ![p] = r]
          /\ IF DecodeResponse(r).ok
               THEN /\ cval' = [cval EXCEPT ![p] = DecodeResponse(r).value]
                    /\ cpc' = [cpc EXCEPT ![p] = "store"]
                    /\ UNCHANGED cret
               ELSE /\ cpc' = [cpc EXCEPT ![p] = "failed"]
                    /\ cret' = [cret EXCEPT ![p].err = DecodeResponse(r).err]
                    /\ UNCHANGED cval
    /\ UNCHANGED <<now, items, cargs, ci, cres, clook, stored>>
    /\ UNCHANGED cheld
    /\ UNCHANGED nonCacheVars

\* (mutation) a store that keeps the expiry of the entry it replaces
Store_KeepExpiry(p) ==
    /\ cpc[p] = "store"
    /\ items' = MapPut(items, CurrentKey(p),
                       [ secrets |-> MapPut(EmptyMap, CurrentMapping(p).SecretName, cval[p]),
                         expiresAt |-> IF CurrentKey(p) \in DOMAIN items
                                         THEN items[CurrentKey(p)].expiresAt
                                         ELSE now + cacheTTL ])
    /\ cpc' = [cpc EXCEPT ![p] = "got"]
    /\ stored' = MapPut(stored, CurrentKey(p), [val |-> cval[p], at |-> now])
    /\ cresp' = [cresp EXCEPT ![p] = NoResponse]
    /\ UNCHANGED <<now, cargs, ci, cres, cval, clook, cret>>
    /\ UNCHANGED cheld
    /\ UNCHANGED nonCacheVars

\* fetchSecretRaw, lines 272-282: the cache update under the write lock
Store(p) ==
    /\ cpc[p] = "store"
    /\ items' = MapPut(items, CurrentKey(p),
                       [ secrets |-> MapPut(EmptyMap, CurrentMapping(p).SecretName, cval[p]),
                         expiresAt |-> now + cacheTTL ])
    /\ cpc' = [cpc EXCEPT ![p] = "got"]
    /\ stored' = MapPut(stored, CurrentKey(p), [val |-> cval[p], at |-> now])
    /\ cresp' = [cresp EXCEPT ![p] = NoResponse]
    /\ UNCHANGED <<now, cargs, ci, cres, cval, clook, cret>>
    /\ UNCHANGED cheld
    /\ UNCHANGED nonCacheVars

\* the locals of a call are gone once it has returned
NoArgs == [workspaceSlug |-> "", environment |-> "", mappings |-> <<>>]

Returns(p) ==
    /\ cpc' = [cpc EXCEPT ![p] = "returned"]
    /\ cargs' = [cargs EXCEPT ![p] = NoArgs]
    /\ ci' = [ci EXCEPT ![p] = 0]
    /\ cres' = [cres EXCEPT ![p] = EmptyMap]
    /\ cresp' = [cresp EXCEPT ![p] = NoResponse]
    /\ cval' = [cval EXCEPT ![p] = ""]
    /\ clook' = [clook EXCEPT ![p] = "none"]

\* FetchSecretsByMapping, lines 143-145: return nil, fmt.Errorf(...: %w, err)
LoopFail(p) ==
    /\ cpc[p] = "failed"
    /\ cret' = [cret EXCEPT ![p] =
                  [isNil |-> TRUE, secrets |-> EmptyMap, err |-> "failed to fetch secret: " \o cret[p].err]]
    /\ Returns(p)
    /\ UNCHANGED <<now, items, stored>>
    /\ UNCHANGED cheld
    /\ UNCHANGED nonCacheVars

\* FetchSecretsByMapping, lines 147-150: result[mapping.EnvName] = secretValue,
\* then the next mapping, or return result, nil after the last one
LoopNext(p) ==
    /\ cpc[p] = "got"
    /\ LET r == MapPut(cres[p], CurrentMapping(p).EnvName, cval[p])
       IN  IF ci[p] < Len(cargs[p].mappings)
             THEN /\ cres' = [cres EXCEPT ![p] = r]
                  /\ ci' = [ci EXCEPT ![p] = @ + 1]
                  /\ cpc' = [cpc EXCEPT ![p] = "lookup"]
                  /\ cval' = [cval EXCEPT ![p] = ""]
                  /\ clook' = [clook EXCEPT ![p] = "none"]
                  /\ UNCHANGED <<cargs, cresp, cret>>
             ELSE /\ cret' = [cret EXCEPT ![p] = [isNil |-> FALSE, secrets |-> r, err |-> "nil"]]
                  /\ Returns(p)
    /\ UNCHANGED <<now, items, stored>>
    /\ UNCHANGED cheld
    /\ UNCHANGED nonCacheVars

CacheNext ==
    \/ Tick
    \/ \E p \in Procs :
          \/ Begin(p)
          \/ Lookup(p)
          \/ LiveFetch(p)
          \/ Store(p)
          \/ LoopFail(p)
          \/ LoopNext(p)

\* ---- requests the front door lets through although their mappings clash ----

\* a second mapping that writes to the env_name of MappingDB
MappingAPIAsDB == [Path |-> "/app", SecretName |-> "API_KEY", EnvName |-> "DB_PASSWORD"]

\* two mappings whose path and secret name differ but join to the same string
MappingColonA == [Path |-> "/app", SecretName |-> "DB:PASSWORD", EnvName |-> "DB_PASSWORD"]

MappingColonB == [Path |-> "/app:DB", SecretName |-> "PASSWORD", EnvName |-> "PASSWORD"]

MappingNoEnvName == [Path |-> "/app", SecretName |-> "API_KEY", EnvName |-> ""]

\* validateConditionalFields, for inject_secret.enable = true: the secrets
\* array is not empty and every mapping has a path, a secret_name and an
\* env_name
validateConditionalFields(ms) ==
    IF Len(ms) = 0 THEN "secrets array is required"
    ELSE IF \E i \in DOMAIN ms : ms[i].Path = "" THEN "path is required"
    ELSE IF \E i \in DOMAIN ms : ms[i].SecretName = "" THEN "secret_name is required"
    ELSE IF \E i \in DOMAIN ms : ms[i].EnvName = "" THEN "env_name is required"
    ELSE NoErr

\* the mapping lists of the requests that passed validation
Validated(lists) == {ms \in lists : validateConditionalFields(ms) = NoErr}

\* requests with a repeated env_name
RepeatedEnvNameLists ==
    Validated({ <<MappingDB, MappingAPIAsDB>>, <<MappingDB, MappingNoEnvName>> })

\* requests with two mappings that join to the same cache key
SameKeyLists ==
    Validated({ <<MappingColonA, MappingColonB>>, <<MappingColonA, MappingNoEnvName>> })

CacheNextWith(lists) ==
    \/ Tick
    \/ \E p \in Procs :
          \/ BeginWith(p, lists)
          \/ Lookup(p)
          \/ LiveFetch(p)
          \/ Store(p)
          \/ LoopFail(p)
          \/ LoopNext(p)

RepeatedEnvNameNext == CacheNextWith(RepeatedEnvNameLists)

SameKeyNext == CacheNextWith(SameKeyLists)

(***************************************************************************)
(* Part III.  The remote command builder and the executor's quoting        *)
(*                                                                         *)
(* A Go string is a sequence of symbols.  Every character that means       *)
(* something to a shell is a symbol of its own (space, newline, the two    *)
(* quotes, backslash, $, backquote, ; & | ( ) < > =); a run of other        *)
(* characters is one symbol.                                               *)
(***************************************************************************)

RECURSIVE ReplaceAll(_, _, _)
\* strings.ReplaceAll(s, old, new) for a one-character old
ReplaceAll(s, old, new) ==
    IF s = <<>> THEN <<>>
    ELSE IF Len(s) = 1 THEN (IF s[1] = old THEN new ELSE s)
    ELSE LET h == Len(s) \div 2
         IN  ReplaceAll(SubSeq(s, 1, h), old, new) \o ReplaceAll(SubSeq(s, h + 1, Len(s)), old, new)

RECURSIVE Join(_, _)
\* strings.Join(elems, sep)
Join(elems, sep) ==
    IF elems = <<>> THEN <<>>
    ELSE IF Len(elems) = 1 THEN elems[1]
    ELSE elems[1] \o sep \o Join(Tail(elems), sep)

\* (mutation) the value is wrapped in quotes without escaping embedded quotes
quoteShell_NoEscape(s) == <<"'">> \o s \o <<"'">>

\* SSHActivity.quoteShell: ' becomes '"'"', the whole in single quotes
quoteShell(s) ==
    <<"'">> \o ReplaceAll(s, "'", <<"'", "\"", "'", "\"", "'">>) \o <<"'">>

\* Client.quoteCommand: ' becomes '\'', the whole in single quotes
quoteCommand(cmd) ==
    <<"'">> \o ReplaceAll(cmd, "'", <<"'", "\\", "'", "'">>) \o <<"'">>

PrivateKeyName == "REPO_PRIVATE_KEY"

\* secrets["REPO_PRIVATE_KEY"], "" when the map has no such key
SecretOrEmpty(secrets, key) == IF key \in DOMAIN secrets THEN secrets[key] ELSE <<>>

GuardFor(what) ==
    <<"echo", " ", "'", "Error:", " ">> \o what
      \o <<" ", "is", " ", "required", " ", "but", " ", "was", " ", "empty", "'", " ", "&", "&", " ", "exit", " ", "1">>

\* tmpDir := fmt.Sprintf("%s/%s/%s", BasePath, Environment, Repo)
TmpDir(rq, cfg) == cfg.BasePath \o <<"/">> \o rq.Environment \o <<"/">> \o rq.Repo

RepoDir(rq, cfg) == TmpDir(rq, cfg) \o <<"/repo">>

DeployDir(rq, cfg) == RepoDir(rq, cfg) \o <<"/.deploy/">> \o rq.Environment

buildRepoURL(repo, isPrivate) ==
    IF isPrivate THEN <<"git@github.com:">> \o repo \o <<".git">>
    ELSE <<"https://github.com/">> \o repo

buildPrivateRepoSSHConfig(sshDir, privateKey) ==
    IF sshDir = <<>> THEN << GuardFor(<<"sshDir">>) >>
    ELSE IF privateKey = <<>> THEN << GuardFor(<<"privateKey">>) >>
    ELSE
      LET keyFile == sshDir \o <<"/repo_private_key">>
          configFile == sshDir \o <<"/config">>
          \* strings.TrimSuffix(sshDir, "/.ssh")
          tmpDir == IF sshDir[Len(sshDir)] = "/.ssh" THEN SubSeq(sshDir, 1, Len(sshDir) - 1) ELSE sshDir
      IN  << <<"mkdir", " ", "-p", " ">> \o sshDir,
             <<"cd", " ">> \o sshDir,
             <<"printf", " ", "'", "%s", "\\", "n", "'", " ">> \o quoteShell(privateKey)
                 \o <<" ", ">", " ">> \o keyFile,
             <<"chmod", " ", "600", " ">> \o keyFile,
             <<"cat", " ", ">", " ">> \o configFile
                 \o <<" ", "<", "<", "'", "SSHCONFIG", "'", "\n",
                      "Host", " ", "github.com", "\n",
                      " ", " ", " ", " ", "HostName", " ", "github.com", "\n",
                      " ", " ", " ", " ", "User", " ", "git", "\n",
                      " ", " ", " ", " ", "IdentityFile", " ">> \o keyFile
                 \o <<"\n", " ", " ", " ", " ", "IdentitiesOnly", " ", "yes", "\n",
                      " ", " ", " ", " ", "StrictHostKeyChecking", " ", "accept-new", "\n",
                      "SSHCONFIG">>,
             <<"cd", " ">> \o tmpDir >>

buildCloneCommands(repoURL, repoDir, branch, commit, hasPrivateKey, tmpDir) ==
    LET sshDir == tmpDir \o <<"/.ssh">>
        gitPrefix == IF hasPrivateKey
                       THEN <<"GIT_SSH_COMMAND", "=", "\"", "ssh", " ", "-F", " ">> \o sshDir
                              \o <<"/config", "\"", " ">>
                       ELSE <<>>
        mainClone == gitPrefix \o <<"git", " ", "clone", " ", "--depth", "=", "1", " ", "--branch", " ">>
                       \o quoteShell(branch) \o <<" ">> \o repoURL \o <<" ", "repo">>
        fallbackClone == gitPrefix \o <<"git", " ", "clone", " ">> \o repoURL
                       \o <<" ", "repo", " ", "--no-checkout", " ", "&", "&", " ", "cd", " ", "repo",
                            " ", "&", "&", " ", "git", " ", "fetch", " ", "origin", " ">>
                       \o quoteShell(commit)
                       \o <<" ", "&", "&", " ", "git", " ", "checkout", " ">> \o quoteShell(commit)
                       \o <<" ", "&", "&", " ", "cd", " ", "..">>
    IN  <<"(">> \o mainClone \o <<")", " ", "|", "|", " ", "(">> \o fallbackClone \o <<")">>

\* the iteration orders a range over the secrets map can take
MapOrders(secrets) ==
    { o \in [1..Cardinality(DOMAIN secrets) -> DOMAIN secrets] :
        \A i, j \in DOMAIN o : i # j => o[i] # o[j] }

RECURSIVE SecretAssignments(_, _)
\* for key, value := range secrets { if key != "REPO_PRIVATE_KEY" { append } }
SecretAssignments(secrets, order) ==
    IF order = <<>> THEN <<>>
    ELSE (IF Head(order) # PrivateKeyName
            THEN << <<Head(order), "=">> \o quoteShell(secrets[Head(order)]) >>
            ELSE <<>>)
         \o SecretAssignments(secrets, Tail(order))

buildScriptExecutionCommand(deployDir, scriptType, rq, secrets, order) ==
    LET scriptName == IF scriptType = "cleanup" THEN <<"cleanup.sh">> ELSE <<"deploy.sh">>
        envVars == << <<"REPO_NAME", "=">> \o quoteShell(rq.Repo),
                      <<"PR_NUMBER", "=">> \o quoteShell(rq.PRNumber),
                      <<"TRACE_ID", "=">> \o quoteShell(rq.TraceID),
                      <<"ENVIRONMENT", "=">> \o quoteShell(rq.Environment) >>
                   \o SecretAssignments(secrets, order)
        envPrefix == Join(envVars, <<" ">>)
    IN  <<"cd", " ">> \o deployDir \o <<" ", "&", "&", " ", "chmod", " ", "+x", " ">> \o scriptName
          \o <<" ", "&", "&", " ">> \o envPrefix \o <<" ", "bash", " ", "./">> \o scriptName

buildDeployCommand(rq, secrets, cfg, order) ==
    IF rq.Repo = <<>> THEN GuardFor(<<"Source.Repo">>)
    ELSE IF rq.Environment = <<>> THEN GuardFor(<<"Metadata.Environment">>)
    ELSE IF rq.Branch = <<>> THEN GuardFor(<<"Source.Branch">>)
    ELSE IF rq.Commit = <<>> THEN GuardFor(<<"Source.Commit">>)
    ELSE IF cfg.BasePath = <<>> THEN GuardFor(<<"SSH", " ", "BasePath">>)
    ELSE
      LET tmpDir == TmpDir(rq, cfg)
          repoDir == RepoDir(rq, cfg)
          deployDir == DeployDir(rq, cfg)
          hasPrivateKey == SecretOrEmpty(secrets, PrivateKeyName) # <<>>
          repoURL == buildRepoURL(rq.Repo, hasPrivateKey)
          commands ==
              << <<"rm", " ", "-rf", " ">> \o tmpDir,
                 <<"mkdir", " ", "-p", " ">> \o tmpDir,
                 <<"cd", " ">> \o tmpDir >>
              \o (IF hasPrivateKey
                    THEN buildPrivateRepoSSHConfig(tmpDir \o <<"/.ssh">>,
                                                   SecretOrEmpty(secrets, PrivateKeyName))
                    ELSE <<>>)
              \o << buildCloneCommands(repoURL, repoDir, rq.Branch, rq.Commit, hasPrivateKey, tmpDir),
                    buildScriptExecutionCommand(deployDir, "deploy", rq, secrets, order),
                    <<"rm", " ", "-rf", " ">> \o tmpDir >>
      IN  Join(commands, <<" ", "&", "&", " ">>)

buildCleanupCommand(rq, secrets, cfg, order) ==
    IF rq.Repo = <<>> THEN GuardFor(<<"Source.Repo">>)
    ELSE IF rq.Environment = <<>> THEN GuardFor(<<"Metadata.Environment">>)
    ELSE IF cfg.BasePath = <<>> THEN GuardFor(<<"SSH", " ", "BasePath">>)
    ELSE
      LET tmpDir == TmpDir(rq, cfg)
          deployDir == DeployDir(rq, cfg)
          scriptCmd == buildScriptExecutionCommand(deployDir, "cleanup", rq, secrets, order)
          ifBlock == <<"if", " ", "[", " ", "-d", " ">> \o deployDir
                       \o <<" ", "]", ";", " ", "then", " ", "cd", " ">> \o deployDir
                       \o <<" ", "&", "&", " ">> \o scriptCmd \o <<";", " ", "fi">>
          commands == << ifBlock, <<"rm", " ", "-rf", " ">> \o tmpDir >>
      IN  Join(commands, <<" ", "&", "&", " ">>)

\* RunSSHDeploy, lines 69-75: the builder chosen by rq.Method
BuildCommand(rq, secrets, cfg, order) ==
    IF rq.Method = MethodDeploy
      THEN buildDeployCommand(rq, secrets, cfg, order)
      ELSE buildCleanupCommand(rq, secrets, cfg, order)

\* executeWithContext: sh -c '<export PATH=...  && command>'
pathEnv == <<"/usr/local/sbin:/usr/local/bin:/usr/sbin:/usr/bin:/sbin:/bin">>

ExecCommand(cmd) ==
    <<"sh", " ", "-c", " ">>
      \o quoteCommand(<<"export", " ", "PATH", "=">> \o pathEnv \o <<" ", "&", "&", " ">> \o cmd)

(***************************************************************************)
(* How a POSIX shell reads a command string (token recognition and quote   *)
(* removal, XCU 2.2, 2.3, 2.7.4).  A token is an operator, a word after     *)
(* quote removal (asg names the variable when the word is an assignment),  *)
(* or the body of a here-document.                                         *)
(***************************************************************************)

\* the character U+0060, which a TLA+ string literal cannot hold
BackQuote == "<backquote>"

OpToken(v) == [t |-> "op", asg |-> "", v |-> <<v>>]

WordToken(asg, v) == [t |-> "word", asg |-> asg, v |-> v]

HereDocToken(body) == [t |-> "heredoc", asg |-> "", v |-> body]

\* the variable names that occur in a command
NameAtoms ==
    { "PATH", "GIT_SSH_COMMAND", "REPO_NAME", "PR_NUMBER", "TRACE_ID", "ENVIRONMENT",
      "DB_PASSWORD", "API_KEY", "REPO_PRIVATE_KEY" }

LexStart ==
    [ i |-> 1, mode |-> "unq", cur |-> <<>>, inw |-> FALSE, plain |-> TRUE, asg |-> "",
      toks |-> <<>>, wantDelim |-> FALSE, hd |-> <<>>, hdPending |-> FALSE ]

\* the word under construction is complete
Flush(st) ==
    IF ~st.inw THEN st
    ELSE [st EXCEPT !.toks = Append(@, WordToken(st.asg, st.cur)),
                    !.cur = <<>>, !.inw = FALSE, !.plain = TRUE, !.asg = "",
                    !.wantDelim = FALSE,
                    !.hd = IF st.wantDelim THEN st.cur ELSE @,
                    !.hdPending = IF st.wantDelim THEN TRUE ELSE @]

Emit(st, v) == [st EXCEPT !.toks = Append(@, OpToken(v))]

Literal(st, c) == [st EXCEPT !.cur = Append(@, c), !.inw = TRUE, !.plain = FALSE]

\* first index of the line that ends the here-document starting at from:
\* a line that is exactly the delimiter; 0 when there is none
HereDocEnd(s, from, delim) ==
    LET IsLineStart(j) == j = from \/ s[j - 1] = "\n"
        IsDelimLine(j) ==
            /\ j + Len(delim) - 1 <= Len(s)
            /\ SubSeq(s, j, j + Len(delim) - 1) = delim
            /\ (j + Len(delim) - 1 = Len(s) \/ s[j + Len(delim)] = "\n")
        found == {j \in from..Len(s) : IsLineStart(j) /\ IsDelimLine(j)}
    IN  IF found = {} THEN 0 ELSE CHOOSE j \in found : \A k \in found : j <= k

\* a newline with a here-document pending: its body follows
ReadHereDoc(s, st) ==
    LET from == st.i + 1
        e == HereDocEnd(s, from, st.hd)
        body == IF e = 0 THEN SubSeq(s, from, Len(s)) ELSE SubSeq(s, from, e - 1)
        next == IF e = 0 THEN Len(s) + 1 ELSE e + Len(st.hd) + 1
    IN  [st EXCEPT !.toks = Append(@, HereDocToken(body)), !.i = next,
                   !.hd = <<>>, !.hdPending = FALSE]

\* one symbol outside quotes
LexUnquoted(s, st) ==
    LET c == s[st.i]
        nxt == IF st.i < Len(s) THEN s[st.i + 1] ELSE ""
        adv(x, n) == [x EXCEPT !.i = st.i + n]
    IN  CASE c = " " -> adv(Flush(st), 1)
          [] c = "\n" ->
                LET f == Emit(Flush(st), "\n")
                IN  IF f.hdPending THEN ReadHereDoc(s, f) ELSE adv(f, 1)
          [] c = "'" -> adv([st EXCEPT !.mode = "sq", !.inw = TRUE, !.plain = FALSE], 1)
          [] c = "\"" -> adv([st EXCEPT !.mode = "dq", !.inw = TRUE, !.plain = FALSE], 1)
          [] c = "\\" ->
                IF nxt = "" THEN adv(Literal(st, "\\"), 1)
                ELSE IF nxt = "\n" THEN adv(st, 2)
                ELSE adv(Literal(st, nxt), 2)
          [] c = "$" -> adv(Literal(st, "<expansion>"), 1)
          [] c = BackQuote -> adv(Literal(st, "<substitution>"), 1)
          [] c = ";" -> adv(Emit(Flush(st), ";"), 1)
          [] c = "&" -> IF nxt = "&" THEN adv(Emit(Flush(st), "&&"), 2)
                        ELSE adv(Emit(Flush(st), "&"), 1)
          [] c = "|" -> IF nxt = "|" THEN adv(Emit(Flush(st), "||"), 2)
                        ELSE adv(Emit(Flush(st), "|"), 1)
          [] c = "(" -> adv(Emit(Flush(st), "("), 1)
          [] c = ")" -> adv(Emit(Flush(st), ")"), 1)
          [] c = ">" -> adv(Emit(Flush(st), ">"), 1)
          [] c = "<" -> IF nxt = "<"
                          THEN adv([Emit(Flush(st), "<<") EXCEPT !.wantDelim = TRUE], 2)
                          ELSE adv(Emit(Flush(st), "<"), 1)
          [] c = "=" ->
                IF st.inw /\ st.plain /\ st.asg = "" /\ Len(st.cur) = 1 /\ st.cur[1] \in NameAtoms
                  THEN adv([st EXCEPT !.asg = st.cur[1], !.cur = <<>>], 1)
                  ELSE adv([st EXCEPT !.cur = Append(@, c), !.inw = TRUE], 1)
          [] OTHER -> adv([st EXCEPT !.cur = Append(@, c), !.inw = TRUE], 1)

\* one symbol inside '...'
LexSingleQuoted(s, st) ==
    LET c == s[st.i]
    IN  IF c = "'" THEN [st EXCEPT !.mode = "unq", !.i = @ + 1]
        ELSE [Literal(st, c) EXCEPT !.i = @ + 1]

\* one symbol inside "..."
LexDoubleQuoted(s, st) ==
    LET c == s[st.i]
        nxt == IF st.i < Len(s) THEN s[st.i + 1] ELSE ""
    IN  CASE c = "\"" -> [st EXCEPT !.mode = "unq", !.i = @ + 1]
          [] c = "\\" ->
                IF nxt \in {"$", BackQuote, "\"", "\\"} THEN [Literal(st, nxt) EXCEPT !.i = @ + 2]
                ELSE IF nxt = "\n" THEN [st EXCEPT !.i = @ + 2]
                ELSE [Literal(st, c) EXCEPT !.i = @ + 1]
          [] c = "$" -> [Literal(st, "<expansion>") EXCEPT !.i = @ + 1]
          [] c = BackQuote -> [Literal(st, "<substitution>") EXCEPT !.i = @ + 1]
          [] OTHER -> [Literal(st, c) EXCEPT !.i = @ + 1]

\* one symbol of the string, in the current quoting mode
LexStep(s, st) ==
    IF st.i > Len(s) THEN st
    ELSE IF st.mode = "unq" THEN LexUnquoted(s, st)
    ELSE IF st.mode = "sq" THEN LexSingleQuoted(s, st)
    ELSE LexDoubleQuoted(s, st)

RECURSIVE LexSteps(_, _, _)
\* n symbols of the string, left to right
LexSteps(s, st, n) ==
    IF n = 0 THEN st
    ELSE IF n = 1 THEN LexStep(s, st)
    ELSE LET h == n \div 2
             mid == LexSteps(s, st, h)
         IN  IF mid.i > Len(s) THEN mid ELSE LexSteps(s, mid, n - h)

\* the tokens of a command string
Lex(s) ==
    LET end == LexSteps(s, LexStart, Len(s))
    IN  IF end.mode = "unq" THEN Flush(end).toks
        ELSE Append(Flush(end).toks, OpToken("<unterminated quote>"))

\* The remote side hands the exec request to the login shell, which runs
\* sh -c <script>; the script is then read by that sh.
RemoteScript(execCommand) ==
    LET outer == Lex(execCommand)
    IN  IF /\ Len(outer) = 3
           /\ outer[1] = WordToken("", <<"sh">>)
           /\ outer[2] = WordToken("", <<"-c">>)
           /\ outer[3].t = "word" /\ outer[3].asg = ""
          THEN outer[3].v
          ELSE <<"<malformed>">>

RemoteTokens(execCommand) == Lex(RemoteScript(execCommand))

ReservedWords == { <<"if">>, <<"then">>, <<"else">>, <<"elif">>, <<"fi">>, <<"do">>, <<"!">> }

RECURSIVE CommandStart(_, _)
\* token k is where a simple command begins
CommandStart(toks, k) ==
    \/ k = 1
    \/ /\ k > 1
       /\ \/ toks[k - 1].t = "op" /\ toks[k - 1].v[1] \in {"&&", "||", ";", "\n", "(", "|", "&"}
          \/ toks[k - 1].t = "word" /\ toks[k - 1].asg = "" /\ toks[k - 1].v \in ReservedWords
                /\ CommandStart(toks, k - 1)

RECURSIVE InCommandPrefix(_, _)
\* token k is the command name or an assignment before it
InCommandPrefix(toks, k) ==
    \/ CommandStart(toks, k)
    \/ k > 1 /\ toks[k - 1].t = "word" /\ toks[k - 1].asg # "" /\ InCommandPrefix(toks, k - 1)

\* the names of the commands the script runs, in order
CommandNames(toks) ==
    LET idx == {k \in DOMAIN toks :
                  /\ toks[k].t = "word" /\ toks[k].asg = ""
                  /\ toks[k].v \notin ReservedWords
                  /\ InCommandPrefix(toks, k)}
    IN  [k \in idx |-> toks[k].v]

(***************************************************************************)
(* The SSH activity: one call of RunSSHDeploy, and the builder called on   *)
(* its own                                                                 *)
(***************************************************************************)

\* longest secret value that is enumerated
MaxValLen == 2

\* the characters a secret value is made of: an ordinary one and the ones a
\* shell gives a meaning to
ValueAlphabet == {"a", "'", "\"", "$", BackQuote, ";", " "}

SecretStrings == UNION { [1..n -> ValueAlphabet] : n \in 0..MaxValLen }

PlainValue == <<"a">>

PemKey == <<"-----", "BEGIN", " OPENSSH PRIVATE KEY-----", "\n", "b3BlbnNzaA", "\n",
            "-----", "END", " OPENSSH PRIVATE KEY-----">>

\* domain.DeployRequest, the fields RunSSHDeploy and the builders read
BuildRequests ==
    [ Method : {MethodDeploy, MethodCleanup},
      Repo : {<<>>, <<"org/app">>},
      Branch : {<<>>, <<"main">>},
      Commit : {<<>>, <<"abc123">>},
      Environment : {<<>>, <<"stage">>},
      PRNumber : {<<>>, <<"42">>},
      TraceID : {<<"t-1">>} ]

\* config.SSHConfig, the fields the activity reads
BuildConfigs ==
    [ BasePath : {<<>>, <<"/tmp">>},
      PrivateKey : {<<>>, <<"changeme">>, PemKey} ]

\* the resolved secrets: none, one, two ordinary ones, or one with the
\* repository's private key
SecretMaps ==
    {EmptyMap}
    \cup { [k \in {"DB_PASSWORD"} |-> v] : v \in SecretStrings }
    \cup { [k \in {"DB_PASSWORD", "API_KEY"} |-> IF k = "DB_PASSWORD" THEN v ELSE <<"k-1">>] :
              v \in SecretStrings }
    \cup { [k \in {"DB_PASSWORD", PrivateKeyName} |-> IF k = "DB_PASSWORD" THEN v ELSE PemKey] :
              v \in SecretStrings }

\* the five fields RunSSHDeploy requires
MissingField(rq, cfg) ==
    IF rq.Repo = <<>> THEN "Source.Repo"
    ELSE IF rq.Environment = <<>> THEN "Metadata.Environment"
    ELSE IF rq.Branch = <<>> THEN "Source.Branch"
    ELSE IF rq.Commit = <<>> THEN "Source.Commit"
    ELSE IF cfg.BasePath = <<>> THEN "SSH BasePath"
    ELSE ""

\* Execute has not been called
NotExecuted == [output |-> <<>>, failed |-> FALSE]

BuildInit ==
    /\ breq \in BuildRequests
    /\ bcfg \in BuildConfigs
    /\ bsecrets \in SecretMaps
    \* the special characters are enumerated for the complete requests
    /\ \/ MissingField(breq, bcfg) = ""
       \/ \A k \in DOMAIN bsecrets : k = PrivateKeyName \/ bsecrets[k] \in {PlainValue, <<"k-1">>}
    /\ bpc = "ready"
    /\ command = <<>>
    /\ rebuilt = <<>>
    /\ sent = <<>>
    /\ setenv = <<>>
    /\ bret = "none"
    /\ bexec = NotExecuted
    /\ bout = <<>>

Range(f) == {f[x] : x \in DOMAIN f}

\* SSHActivity.getSSHPrivateKey: "" when the key is usable, else the error
getSSHPrivateKey(cfg) ==
    IF cfg.PrivateKey = <<>> THEN "no SSH private key configured"
    ELSE IF "BEGIN" \notin Range(cfg.PrivateKey) \/ "END" \notin Range(cfg.PrivateKey)
      THEN "invalid SSH private key format"
    ELSE ""

\* the longest captured output enumerated, in pieces
MaxOutputLen == 3

\* the pieces a captured output is made of: the three signatures
\* RunSSHDeploy looks for, a line break, a blank and other text
OutputAtoms ==
    {"fatal:", "Permission denied", "Host key verification failed", "\n", " ", "x"}

Outputs == UNION { [1..n -> OutputAtoms] : n \in 0..MaxOutputLen }

\* everything Execute can come back with: any captured output, with or
\* without an error
ExecResults == [output : Outputs, failed : BOOLEAN]

\* what Execute can come back with: no error, or an error with an output
\* of each kind RunSSHDeploy tells apart
ExecOutcomes ==
    { [output |-> <<"x">>, failed |-> FALSE],
      [output |-> <<"x", "\n", "fatal:", "x">>, failed |-> TRUE],
      [output |-> <<"Permission denied", "x">>, failed |-> TRUE],
      [output |-> <<"Host key verification failed">>, failed |-> TRUE],
      [output |-> <<"x">>, failed |-> TRUE] }

\* strings.Contains(s, piece)
Contains(s, piece) == \E i \in DOMAIN s : s[i] = piece

\* strings.Split(s, sep): the pieces between the separators, in order
Split(s, sep) ==
    LET seps == {i \in DOMAIN s : s[i] = sep}
        begins == {1} \cup {i + 1 : i \in seps}
        nth[n \in 1..Cardinality(begins)] ==
            CHOOSE a \in begins : Cardinality({b \in begins : b < a}) = n - 1
        stop(a) == IF \E i \in seps : i >= a
                   THEN CHOOSE i \in seps : i >= a /\ \A j \in seps : j >= a => i <= j
                   ELSE Len(s) + 1
    IN  [n \in 1..Cardinality(begins) |-> SubSeq(s, nth[n], stop(nth[n]) - 1)]

\* strings.TrimSpace(s)
TrimSpace(s) ==
    LET kept == {i \in DOMAIN s : s[i] \notin {" ", "\n"}}
    IN  IF kept = {} THEN <<>>
        ELSE SubSeq(s, CHOOSE i \in kept : \A j \in kept : i <= j,
                       CHOOSE i \in kept : \A j \in kept : i >= j)

\* (mutation) the permission-denied branch returns without the output
DeployResult_PermissionDeniedNoOutput(r) ==
    IF ~r.failed THEN [output |-> r.output, err |-> "nil", line |-> <<>>]
    ELSE IF Contains(r.output, "fatal:") /\ \E n \in DOMAIN Split(r.output, "\n") :
                                                 Contains(Split(r.output, "\n")[n], "fatal:")
      THEN LET lines == Split(r.output, "\n")
               n == CHOOSE i \in DOMAIN lines :
                       /\ Contains(lines[i], "fatal:")
                       /\ \A j \in DOMAIN lines : Contains(lines[j], "fatal:") => i <= j
           IN  [output |-> r.output, err |-> "Git operation failed", line |-> TrimSpace(lines[n])]
    ELSE IF ~Contains(r.output, "fatal:") /\ Contains(r.output, "Permission denied")
      THEN [output |-> <<>>, err |-> "SSH authentication failed (Permission denied)",
            line |-> <<>>]
    ELSE IF ~Contains(r.output, "fatal:") /\ Contains(r.output, "Host key verification failed")
      THEN [output |-> r.output, err |-> "SSH host key verification failed", line |-> <<>>]
    ELSE [output |-> r.output, err |-> "SSH deployment failed", line |-> <<>>]

\* RunSSHDeploy, lines 92-130: what it returns for what Execute returned.
\* The fatal branch returns from inside its loop over the lines; the other
\* signatures are looked for only when the output has no "fatal:".
DeployResult(r) ==
    IF ~r.failed THEN [output |-> r.output, err |-> "nil", line |-> <<>>]
    ELSE IF Contains(r.output, "fatal:") /\ \E n \in DOMAIN Split(r.output, "\n") :
                                                 Contains(Split(r.output, "\n")[n], "fatal:")
      THEN LET lines == Split(r.output, "\n")
               n == CHOOSE i \in DOMAIN lines :
                       /\ Contains(lines[i], "fatal:")
                       /\ \A j \in DOMAIN lines : Contains(lines[j], "fatal:") => i <= j
           IN  [output |-> r.output, err |-> "Git operation failed", line |-> TrimSpace(lines[n])]
    ELSE IF ~Contains(r.output, "fatal:") /\ Contains(r.output, "Permission denied")
      THEN [output |-> r.output, err |-> "SSH authentication failed (Permission denied)",
            line |-> <<>>]
    ELSE IF ~Contains(r.output, "fatal:") /\ Contains(r.output, "Host key verification failed")
      THEN [output |-> r.output, err |-> "SSH host key verification failed", line |-> <<>>]
    ELSE [output |-> r.output, err |-> "SSH deployment failed", line |-> <<>>]

\* the error RunSSHDeploy returns for what Execute returned
DeployError(outcome_) == DeployResult(outcome_).err

\* SSHActivity.RunSSHDeploy, Execute coming back with one of outcomes
RunSSHDeployWith(outcomes) ==
    /\ bpc = "ready"
    /\ bpc' = "returned"
    /\ IF MissingField(breq, bcfg) # ""
         THEN /\ bret' = MissingField(breq, bcfg) \o " is required but was empty"
              /\ UNCHANGED <<command, sent, setenv, bexec, bout>>
         ELSE \E order \in MapOrders(bsecrets) :
                /\ command' = BuildCommand(breq, bsecrets, bcfg, order)
                /\ IF getSSHPrivateKey(bcfg) # ""
                     THEN /\ bret' = "failed to get SSH private key: " \o getSSHPrivateKey(bcfg)
                          /\ UNCHANGED <<sent, setenv, bexec, bout>>
                     ELSE /\ sent' = ExecCommand(command')
                          /\ setenv' = bsecrets
                          /\ \E o \in outcomes :
                                /\ bexec' = o
                                /\ bret' = DeployError(o)
                                /\ bout' = DeployResult(o).output
    /\ UNCHANGED <<breq, bcfg, bsecrets, rebuilt>>
    /\ UNCHANGED nonBuildVars

\* (mutation) the early validation of lines 34-49 is gone
RunSSHDeploy_NoValidation ==
    /\ bpc = "ready"
    /\ bpc' = "returned"
    /\ \E order \in MapOrders(bsecrets) :
          /\ command' = BuildCommand(breq, bsecrets, bcfg, order)
          /\ IF getSSHPrivateKey(bcfg) # ""
               THEN /\ bret' = "failed to get SSH private key: " \o getSSHPrivateKey(bcfg)
                    /\ UNCHANGED <<sent, setenv, bexec, bout>>
               ELSE /\ sent' = ExecCommand(command')
                    /\ setenv' = bsecrets
                    /\ \E o \in ExecOutcomes :
                          /\ bexec' = o
                          /\ bret' = DeployError(o)
                          /\ bout' = DeployResult(o).output
    /\ UNCHANGED <<breq, bcfg, bsecrets, rebuilt>>
    /\ UNCHANGED nonBuildVars

\* SSHActivity.RunSSHDeploy
RunSSHDeploy == RunSSHDeployWith(ExecOutcomes)

\* SSHActivity.RunSSHDeploy, over every captured output
RunSSHDeploy_AnyOutput == RunSSHDeployWith(ExecResults)

\* the builder called on its own: buildDeployCommand or buildCleanupCommand
Build ==
    /\ bpc = "ready"
    /\ bpc' = "built"
    /\ \E order \in MapOrders(bsecrets) :
          command' = BuildCommand(breq, bsecrets, bcfg, order)
    /\ UNCHANGED <<breq, bcfg, bsecrets, rebuilt, sent, setenv, bret, bexec, bout>>
    /\ UNCHANGED nonBuildVars

\* the builder called again with the same request and the same secrets map
BuildAgain ==
    /\ bpc = "built"
    /\ bpc' = "rebuilt"
    /\ \E order \in MapOrders(bsecrets) :
          rebuilt' = BuildCommand(breq, bsecrets, bcfg, order)
    /\ UNCHANGED <<breq, bcfg, bsecrets, command, sent, setenv, bret, bexec, bout>>
    /\ UNCHANGED nonBuildVars

BuildNext == RunSSHDeploy \/ Build \/ BuildAgain

(***************************************************************************)
(* Part IV.  The remote host running the command: sh reads the script one  *)
(* command at a time (XCU 2.9.3 lists, 2.9.4 compound commands).           *)
(***************************************************************************)

\* the operators that end a simple command
ControlOps == {"&&", "||", ";", "\n", "(", ")", "|", "&"}

IsOp(tok, v) == tok.t = "op" /\ tok.v = <<v>>

IsWord(tok, v) == tok.t = "word" /\ tok.asg = "" /\ tok.v = v

\* the first token from k on that is a control operator, Len + 1 when none
CommandEnd(toks, k) ==
    LET ends == {j \in k..Len(toks) : toks[j].t = "op" /\ toks[j].v[1] \in ControlOps}
    IN  IF ends = {} THEN Len(toks) + 1 ELSE CHOOSE j \in ends : \A i \in ends : j <= i

\* the token that closes the compound command opened at k
MatchingClose(toks, k, open, close) ==
    LET isOpen(j) == IF open = "(" THEN IsOp(toks[j], "(")
                     ELSE IsWord(toks[j], <<open>>) /\ CommandStart(toks, j)
        isClose(j) == IF close = ")" THEN IsOp(toks[j], ")")
                      ELSE IsWord(toks[j], <<close>>) /\ CommandStart(toks, j)
        balanced(j) == Cardinality({i \in k..j : isOpen(i)}) = Cardinality({i \in k..j : isClose(i)})
        closes == {j \in k..Len(toks) : isClose(j) /\ balanced(j)}
    IN  IF closes = {} THEN Len(toks) ELSE CHOOSE j \in closes : \A i \in closes : j <= i

\* the token after the command (simple, subshell or if) that starts at k
SkipCommand(toks, k) ==
    IF k > Len(toks) THEN k
    ELSE IF IsOp(toks[k], "(") THEN MatchingClose(toks, k, "(", ")") + 1
    ELSE IF IsWord(toks[k], <<"if">>) THEN MatchingClose(toks, k, "if", "fi") + 1
    ELSE CommandEnd(toks, k)

\* the words of the simple command at k: its name and arguments, without
\* the assignments in front and the redirections
CommandWords(toks, k) ==
    LET e == CommandEnd(toks, k)
        isArg(j) == /\ toks[j].t = "word"
                    /\ ~(toks[j].asg # "" /\ InCommandPrefix(toks, j))
                    /\ ~(j > k /\ toks[j - 1].t = "op" /\ toks[j - 1].v[1] \in {">", "<", "<<"})
        idx == {j \in k..(e - 1) : isArg(j)}
        nth[n \in 1..Cardinality(idx)] ==
            CHOOSE j \in idx : Cardinality({i \in idx : i < j}) = n - 1
    IN  [n \in 1..Cardinality(idx) |-> toks[nth[n]].v]

\* what a simple command is, as far as its effect on the workspace goes
CommandKind(words) ==
    IF words = <<>> THEN "assign"
    ELSE IF words[1] = <<"git">> /\ Len(words) >= 2 /\ words[2] = <<"clone">>
      THEN (IF <<"--no-checkout">> \in Range(words) THEN "clone-no-checkout"
            ELSE IF <<"--branch">> \in Range(words) THEN "clone-branch"
            ELSE "clone")
    ELSE IF words[1] = <<"git">> /\ Len(words) >= 2 /\ words[2] = <<"fetch">> THEN "fetch"
    ELSE IF words[1] = <<"git">> /\ Len(words) >= 2 /\ words[2] = <<"checkout">> THEN "checkout"
    ELSE IF words[1] = <<"bash">> THEN "script"
    ELSE IF words[1] = <<"[">> THEN "test"
    ELSE IF words[1] = <<"exit">> THEN "exit"
    ELSE IF words[1] \in {<<"export">>, <<"echo">>} THEN "builtin"
    ELSE IF words[1] = <<"rm">> THEN "rm"
    ELSE "other"

KindAt(toks, k) == CommandKind(CommandWords(toks, k))

\* the fi that ends the if whose then is at k
EnclosingFi(toks, k) ==
    LET isIf(j) == IsWord(toks[j], <<"if">>) /\ CommandStart(toks, j)
        isFi(j) == IsWord(toks[j], <<"fi">>) /\ CommandStart(toks, j)
        closes == {j \in k..Len(toks) :
                     /\ isFi(j)
                     /\ Cardinality({i \in k..j : isFi(i)}) = Cardinality({i \in k..j : isIf(i)}) + 1}
    IN  IF closes = {} THEN Len(toks) ELSE CHOOSE j \in closes : \A i \in closes : j <= i

RequestedCommit == <<"abc123">>

NewerCommit == <<"def456">>

\* the commands RunSSHDeploy sends: complete requests, a usable key
RemoteRequests ==
    {rq \in BuildRequests :
        rq.Repo # <<>> /\ rq.Environment # <<>> /\ rq.Branch # <<>> /\ rq.Commit = RequestedCommit}

RemoteSecretMaps ==
    { EmptyMap,
      [k \in {"DB_PASSWORD"} |-> <<"'", "$">>],
      [k \in {"DB_PASSWORD", "API_KEY"} |-> IF k = "DB_PASSWORD" THEN PlainValue ELSE <<"k-1">>],
      [k \in {"DB_PASSWORD", PrivateKeyName} |-> IF k = "DB_PASSWORD" THEN PlainValue ELSE PemKey] }

\* Execute has handed the command to the remote host
RemoteInit ==
    /\ breq \in RemoteRequests
    /\ bcfg = [BasePath |-> <<"/tmp">>, PrivateKey |-> PemKey]
    /\ bsecrets \in RemoteSecretMaps
    /\ bpc = "executing"
    /\ \E order \in MapOrders(bsecrets) : command = BuildCommand(breq, bsecrets, bcfg, order)
    /\ rebuilt = <<>>
    /\ sent = ExecCommand(command)
    /\ setenv = bsecrets
    /\ bret = "none"
    /\ bexec = NotExecuted
    /\ bout = <<>>
    /\ rtoks = RemoteTokens(sent)
    /\ rip = 1
    /\ rrc = 0
    /\ rlog = <<>>
    /\ rtip \in {RequestedCommit, NewerCommit}
    \* the command finds the workspace an earlier execution left, or none
    /\ rdir \in BOOLEAN
    /\ rrev = (IF rdir THEN RequestedCommit ELSE <<>>)
    /\ rscript = <<>>
    /\ rstate = "running"

\* sh reads an operator or a reserved word
ShellControl ==
    /\ rstate = "running"
    /\ rip <= Len(rtoks)
    /\ LET tok == rtoks[rip]
           reserved == tok.t = "word" /\ tok.asg = "" /\ tok.v \in ReservedWords
                          /\ CommandStart(rtoks, rip)
       IN  /\ tok.t \in {"op", "heredoc"} \/ reserved
           /\ IF IsOp(tok, "&&")
                THEN /\ rip' = (IF rrc = 0 THEN rip + 1 ELSE SkipCommand(rtoks, rip + 1))
                     /\ rrc' = rrc
              ELSE IF IsOp(tok, "||")
                THEN /\ rip' = (IF rrc # 0 THEN rip + 1 ELSE SkipCommand(rtoks, rip + 1))
                     /\ rrc' = rrc
              ELSE IF reserved /\ tok.v = <<"then">> /\ rrc # 0
                \* no branch is taken: the if command exits 0
                THEN /\ rip' = EnclosingFi(rtoks, rip)
                     /\ rrc' = 0
              ELSE /\ rip' = rip + 1
                   /\ rrc' = rrc
    /\ UNCHANGED <<rtoks, rlog, rtip, rdir, rrev, rscript, rstate>>
    /\ UNCHANGED <<nonRemoteVars, buildVars>>

\* the exit statuses a command of this kind can have
ExitStatuses(kind, words) ==
    CASE kind = "test" -> IF rdir THEN {0} ELSE {1}
      [] kind \in {"builtin", "assign"} -> {0}
      [] kind = "exit" -> IF Len(words) >= 2 /\ words[2] = <<"1">> THEN {1} ELSE {0}
      [] OTHER -> {0, 1}

\* sh runs one simple command
ShellCommand ==
    /\ rstate = "running"
    /\ rip <= Len(rtoks)
    /\ rtoks[rip].t = "word"
    /\ ~(rtoks[rip].asg = "" /\ rtoks[rip].v \in ReservedWords /\ CommandStart(rtoks, rip))
    /\ LET words == CommandWords(rtoks, rip)
           kind == CommandKind(words)
       IN  \E rc \in ExitStatuses(kind, words) :
              /\ rrc' = rc
              /\ rlog' = Append(rlog, [at |-> rip, rc |-> rc])
              /\ rip' = CommandEnd(rtoks, rip)
              /\ rstate' = (IF kind = "exit" THEN "exited" ELSE rstate)
              /\ rrev' = (CASE rc = 0 /\ kind = "clone-branch" -> rtip
                            [] rc = 0 /\ kind = "checkout" -> words[3]
                            [] rc = 0 /\ kind \in {"clone", "clone-no-checkout", "rm"} -> <<>>
                            [] OTHER -> rrev)
              /\ rdir' = (IF rc = 0 /\ kind = "rm" THEN FALSE ELSE rdir)
              /\ rscript' = (IF kind = "script" THEN rrev ELSE rscript)
    /\ UNCHANGED <<rtoks, rtip>>
    /\ UNCHANGED <<nonRemoteVars, buildVars>>

\* the script is read to its end: sh exits with the last status
ShellExit ==
    /\ rstate = "running"
    /\ rip > Len(rtoks)
    /\ rstate' = "exited"
    /\ UNCHANGED <<rtoks, rip, rrc, rlog, rtip, rdir, rrev, rscript>>
    /\ UNCHANGED <<nonRemoteVars, buildVars>>

RemoteNext == ShellControl \/ ShellCommand \/ ShellExit

(***************************************************************************)
(* Part V.  config.Load deciding StrictHostKeyChecking, and one call of    *)
(* Client.Execute: the caller, the goroutine it starts, the session and    *)
(* the remote command.                                                     *)
(***************************************************************************)

\* most chunks of output the remote command writes
MaxOut == 2

\* what config.yaml can say about ssh: whether the file exists, whether
\* ssh.host and ssh.user are set, and the strict_host_key_checking key
ConfigFiles ==
    {[exists |-> FALSE, host |-> FALSE, user |-> FALSE, strict |-> "absent"]}
        \cup [exists : {TRUE}, host : BOOLEAN, user : BOOLEAN,
              strict : {"absent", "true", "false"}]

\* values of SSH_STRICT_HOST_KEY_CHECKING; "" is unset
EnvValues == {"", "true", "1", "false", "0"}

\* SSH: SSHConfig{..., StrictHostKeyChecking: true}
DefaultStrict == TRUE

\* yaml decoding of the bool field: an absent key leaves the zero value
FileStrict(f) == f.strict = "true"

\* loadFromFile: a missing file changes nothing; otherwise the file's value
\* is taken whenever the file sets ssh.host or ssh.user
loadFromFile(f, strict) ==
    IF ~f.exists THEN strict
    ELSE IF f.host \/ f.user THEN FileStrict(f)
    ELSE strict

\* loadFromEnv: a non-empty value replaces the setting
loadFromEnv(e, strict) ==
    IF e # "" THEN e = "true" \/ e = "1" ELSE strict

\* Load: defaults, then the file, then the environment
Load(f, e) == loadFromEnv(e, loadFromFile(f, DefaultStrict))

\* the zero result{}: nothing captured, and no error recorded yet
NoResult == [output |-> 0, err |-> "none"]

\* resultChan := make(chan result, 1)
ResultChanCap == 1

ExecInit ==
    /\ xfile \in ConfigFiles
    /\ xenv \in EnvValues
    /\ xknown \in {"listed", "unlisted", "missing"}
    /\ xstrict = DefaultStrict
    /\ xverify = "none"
    /\ xwarn = {}
    /\ xpc = "load"
    /\ xconn = "none"
    /\ xsess = "none"
    /\ xctx = "active"
    /\ xgo = "none"
    /\ xres = NoResult
    /\ xchan = <<>>
    /\ xremote = "none"
    /\ xout = 0
    /\ xcap = 0
    /\ xret = NoResult

\* main: cfg := config.Load(), handed to ssh.NewClient
LoadConfig ==
    /\ xpc = "load"
    /\ xstrict' = Load(xfile, xenv)
    /\ xpc' = "parse"
    /\ UNCHANGED <<xfile, xenv, xknown, xverify, xwarn, xconn, xsess, xctx,
                   xgo, xres, xchan, xremote, xout, xcap, xret>>

\* Execute: ssh.ParsePrivateKey
ParsePrivateKey ==
    /\ xpc = "parse"
    /\ \E ok \in BOOLEAN :
          IF ok
          THEN xpc' = "callback" /\ xret' = xret
          ELSE xpc' = "done" /\ xret' = [output |-> 0, err |-> "parse"]
    /\ UNCHANGED <<xfile, xenv, xknown, xstrict, xverify, xwarn, xconn, xsess,
                   xctx, xgo, xres, xchan, xremote, xout, xcap>>

\* Execute: c.createHostKeyCallback()
createHostKeyCallback ==
    /\ xpc = "callback"
    /\ IF ~xstrict
       THEN /\ xwarn' = xwarn \cup {"strict host key checking is disabled"}
            /\ xverify' = "insecure"
            /\ xpc' = "dial"
            /\ UNCHANGED <<xknown, xret>>
       ELSE \E ok \in BOOLEAN :
            /\ xwarn' = IF xknown = "missing"
                        THEN xwarn \cup {"known hosts file does not exist"}
                        ELSE xwarn
            /\ IF ok
               THEN /\ xknown' = IF xknown = "missing" THEN "unlisted" ELSE xknown
                    /\ xverify' = "knownhosts"
                    /\ xpc' = "dial"
                    /\ xret' = xret
               ELSE /\ xknown' = xknown
                    /\ xverify' = xverify
                    /\ xpc' = "done"
                    /\ xret' = [output |-> 0, err |-> "callback"]
    /\ UNCHANGED <<xfile, xenv, xstrict, xconn, xsess, xctx, xgo, xres, xchan,
                   xremote, xout, xcap>>

\* Execute: ssh.Dial, then defer conn.Close().  The known-hosts callback
\* rejects a host the file does not list.
Dial ==
    /\ xpc = "dial"
    /\ \E ok \in BOOLEAN :
          IF ok /\ (xverify = "insecure" \/ xknown = "listed")
          THEN xconn' = "open" /\ xpc' = "newsession" /\ xret' = xret
          ELSE xconn' = xconn /\ xpc' = "done"
               /\ xret' = [output |-> 0, err |-> "dial"]
    /\ UNCHANGED <<xfile, xenv, xknown, xstrict, xverify, xwarn, xsess, xctx,
                   xgo, xres, xchan, xremote, xout, xcap>>

\* Execute: conn.NewSession(), then defer session.Close()
NewSession ==
    /\ xpc = "newsession"
    /\ \E ok \in BOOLEAN :
          IF ok
          THEN xsess' = "open" /\ xpc' = "exec" /\ xret' = xret
          ELSE xsess' = xsess /\ xpc' = "closeConn"
               /\ xret' = [output |-> 0, err |-> "session"]
    /\ UNCHANGED <<xfile, xenv, xknown, xstrict, xverify, xwarn, xconn, xctx,
                   xgo, xres, xchan, xremote, xout, xcap>>

\* the keys of the envVars Execute is called with
EnvVarNames == {"DB_PASSWORD"}

\* the log entry for a Setenv the transport rejected: a warning for a key of
\* envVars, a debug message for PATH
SetenvFailed(key) == "Setenv failed: " \o key

\* (mutation) a rejected Setenv makes Execute return an error
executeWithContext_SetenvFatal ==
    /\ xpc = "exec"
    /\ \E rejected \in SUBSET (EnvVarNames \cup {"PATH"}) :
          /\ xwarn' = xwarn \cup {SetenvFailed(key) : key \in rejected}
          /\ IF rejected = {}
             THEN xgo' = "started" /\ xpc' = "select" /\ xret' = xret
             ELSE xgo' = xgo /\ xpc' = "closeSession"
                  /\ xret' = [output |-> 0, err |-> "setenv"]
    /\ UNCHANGED <<xfile, xenv, xknown, xstrict, xverify, xconn, xsess,
                   xctx, xres, xchan, xremote, xout, xcap>>

\* Execute: the Setenv loop, then executeWithContext up to the select:
\* Setenv PATH, make(chan result, 1), go func.  The transport accepts or
\* rejects each Setenv; a rejection is logged and nothing else.
executeWithContext ==
    /\ xpc = "exec"
    /\ \E rejected \in SUBSET (EnvVarNames \cup {"PATH"}) :
          xwarn' = xwarn \cup {SetenvFailed(key) : key \in rejected}
    /\ xgo' = "started"
    /\ xpc' = "select"
    /\ UNCHANGED <<xfile, xenv, xknown, xstrict, xverify, xconn, xsess,
                   xctx, xres, xchan, xremote, xout, xcap, xret>>

\* the goroutine: session.CombinedOutput(execCommand) starts the command, or
\* fails at once on a session that is already closed
GoCombinedOutput ==
    /\ xgo = "started"
    /\ IF xsess = "open"
       THEN xgo' = "running" /\ xremote' = "running" /\ xres' = xres
       ELSE xgo' = "sending" /\ xremote' = xremote
            /\ xres' = [output |-> 0, err |-> "closed"]
    /\ UNCHANGED <<xfile, xenv, xknown, xstrict, xverify, xwarn, xpc, xconn,
                   xsess, xctx, xchan, xout, xcap, xret>>

\* the remote command writes to stdout or stderr
RemoteOutput ==
    /\ xremote = "running"
    /\ xsess = "open"
    /\ xout < MaxOut
    /\ xout' = xout + 1
    /\ UNCHANGED <<xfile, xenv, xknown, xstrict, xverify, xwarn, xpc, xconn,
                   xsess, xctx, xgo, xres, xchan, xremote, xcap, xret>>

\* the remote command exits
RemoteExit ==
    /\ xremote = "running"
    /\ xsess = "open"
    /\ \E rc \in {"exit0", "exit1"} : xremote' = rc
    /\ UNCHANGED <<xfile, xenv, xknown, xstrict, xverify, xwarn, xpc, xconn,
                   xsess, xctx, xgo, xres, xchan, xout, xcap, xret>>

\* the goroutine: CombinedOutput returns once the command has exited or the
\* session has been closed under it
GoReturn ==
    /\ xgo = "running"
    /\ xremote \in {"exit0", "exit1"} \/ xsess = "closed"
    /\ xres' = [output |-> xout,
                err |-> CASE xremote = "exit0" -> "nil"
                          [] xremote = "exit1" -> "exit"
                          [] OTHER -> "closed"]
    /\ xgo' = "sending"
    /\ UNCHANGED <<xfile, xenv, xknown, xstrict, xverify, xwarn, xpc, xconn,
                   xsess, xctx, xchan, xremote, xout, xcap, xret>>

\* (mutation) an unbuffered resultChan: the send needs the caller to be
\* waiting in the select
GoSend_Unbuffered ==
    /\ xgo = "sending"
    /\ xpc = "select"
    /\ xchan = <<>>
    /\ xchan' = Append(xchan, xres)
    /\ xgo' = "done"
    /\ UNCHANGED <<xfile, xenv, xknown, xstrict, xverify, xwarn, xpc, xconn,
                   xsess, xctx, xres, xremote, xout, xcap, xret>>

\* the goroutine: resultChan <- result{...}, which needs room in the channel
GoSend ==
    /\ xgo = "sending"
    /\ Len(xchan) < ResultChanCap
    /\ xchan' = Append(xchan, xres)
    /\ xgo' = "done"
    /\ UNCHANGED <<xfile, xenv, xknown, xstrict, xverify, xwarn, xpc, xconn,
                   xsess, xctx, xres, xremote, xout, xcap, xret>>

\* the activity's context is cancelled or reaches its deadline
CtxDone ==
    /\ xctx = "active"
    /\ xpc \notin {"idle", "load", "done"}
    /\ xctx' = "done"
    /\ UNCHANGED <<xfile, xenv, xknown, xstrict, xverify, xwarn, xpc, xconn,
                   xsess, xgo, xres, xchan, xremote, xout, xcap, xret>>

\* what Execute makes of executeWithContext's (output, err)
ExecuteReturn(output, err) ==
    [output |-> output, err |-> err]

\* select: case <-ctx.Done(): return "", ctx.Err()
SelectCtxDone ==
    /\ xpc = "select"
    /\ xctx = "done"
    /\ xret' = ExecuteReturn(0, "ctx")
    /\ xcap' = xout
    /\ xpc' = "closeSession"
    /\ UNCHANGED <<xfile, xenv, xknown, xstrict, xverify, xwarn, xconn, xsess,
                   xctx, xgo, xres, xchan, xremote, xout>>

\* select: case res := <-resultChan: return res.output, res.err
SelectResult ==
    /\ xpc = "select"
    /\ xchan # <<>>
    /\ xret' = ExecuteReturn(Head(xchan).output, Head(xchan).err)
    /\ xchan' = Tail(xchan)
    /\ xcap' = xout
    /\ xpc' = "closeSession"
    /\ UNCHANGED <<xfile, xenv, xknown, xstrict, xverify, xwarn, xconn, xsess,
                   xctx, xgo, xres, xremote, xout>>

\* deferred: session.Close()
SessionClose ==
    /\ xpc = "closeSession"
    /\ xsess' = "closed"
    /\ xpc' = "closeConn"
    /\ UNCHANGED <<xfile, xenv, xknown, xstrict, xverify, xwarn, xconn, xctx,
                   xgo, xres, xchan, xremote, xout, xcap, xret>>

\* deferred: conn.Close(), after which Execute has returned
ConnClose ==
    /\ xpc = "closeConn"
    /\ xconn' = "closed"
    /\ xpc' = "done"
    /\ UNCHANGED <<xfile, xenv, xknown, xstrict, xverify, xwarn, xsess, xctx,
                   xgo, xres, xchan, xremote, xout, xcap, xret>>

CallerStep ==
    \/ LoadConfig
    \/ ParsePrivateKey
    \/ createHostKeyCallback
    \/ Dial
    \/ NewSession
    \/ executeWithContext
    \/ SelectCtxDone
    \/ SelectResult
    \/ SessionClose
    \/ ConnClose

GoStep ==
    \/ GoCombinedOutput
    \/ GoReturn
    \/ GoSend

ExecNext ==
    \/ (CallerStep /\ UNCHANGED nonExecVars)
    \/ (GoStep /\ UNCHANGED nonExecVars)
    \/ (RemoteOutput /\ UNCHANGED nonExecVars)
    \/ (RemoteExit /\ UNCHANGED nonExecVars)
    \/ (CtxDone /\ UNCHANGED nonExecVars)

(***************************************************************************)
(* Part VI.  The DNS step: IPResolver.Resolve, DNSActivity.EnsureDNSRecord *)
(* and the Cloudflare client's EnsureRecord, against a zone that holds at  *)
(* most one A record per name.                                             *)
(***************************************************************************)

\* most calls of EnsureRecord made one after the other
MaxCalls == 2

Names == {"app.example.com", "api.example.com"}

Addresses == {"10.0.0.1", "10.0.0.2"}

\* findRecord's nil *DNSRecord
NoRecord == "none"

\* the zone: per name, the content of its A record
Zones ==
    {z \in [Names -> Addresses \cup {NoRecord}] : z["api.example.com"] = "10.0.0.2"}

\* IPResolver.mappings, loaded at startup: with and without WEB_IP
Mappings ==
    { [p \in {"WEB_IP", "DB_IP"} |-> IF p = "WEB_IP" THEN "10.0.0.1" ELSE "10.0.0.2"],
      [p \in {"DB_IP"} |-> "10.0.0.2"] }

\* (mutation) an absent placeholder resolves to a default address
Resolve_Default(m, placeholder) ==
    IF placeholder \in DOMAIN m
    THEN [ip |-> m[placeholder], err |-> NoErr]
    ELSE [ip |-> "10.0.0.2", err |-> NoErr]

\* IPResolver.Resolve: ip, found := r.mappings[placeholder]
Resolve(m, placeholder) ==
    IF placeholder \in DOMAIN m
    THEN [ip |-> m[placeholder], err |-> NoErr]
    ELSE [ip |-> "", err |-> "IP placeholder not found in mappings"]

\* (mutation) EnsureRecord updating a record whatever it holds
EnsureRecordRequest_Always(found, ip) ==
    IF found # NoRecord THEN "PUT" ELSE "POST"

\* EnsureRecord: nothing when the record found holds ip, updateRecord when
\* it holds something else, createRecord when there is none
EnsureRecordRequest(found, ip) ==
    IF found # NoRecord
    THEN IF found = ip THEN "none" ELSE "PUT"
    ELSE "POST"

\* what the zone is after the API applied a create or an update
Applied(zone, domain, ip) == [zone EXCEPT ![domain] = ip]

DnsIdle ==
    /\ dmap = <<>>
    /\ dzone = <<>>
    /\ dargs = <<>>
    /\ dpc = "idle"
    /\ dip = ""
    /\ dfound = NoRecord
    /\ dreqs = <<>>
    /\ dcall = 0
    /\ dret = <<>>

\* the activity returns: its error and, for the record, the zone it leaves
Returned(err) == Append(dret, [call |-> dcall, err |-> err, zone |-> dzone])

\* EnsureDNSRecord: a.ipResolver.Resolve(ipPlaceholder); on error return err
EnsureDNSRecord_Resolve ==
    /\ dpc = "resolve"
    /\ LET r == Resolve(dmap, dargs.placeholder)
       IN  IF r.err # NoErr
           THEN dpc' = "returned" /\ dret' = Returned(r.err) /\ dip' = dip
           ELSE dpc' = "find" /\ dret' = dret /\ dip' = r.ip
    /\ UNCHANGED <<dmap, dzone, dargs, dfound, dreqs, dcall>>

\* EnsureRecord: c.findRecord(ctx, domain), a GET that may fail
findRecord ==
    /\ dpc = "find"
    /\ dreqs' = Append(dreqs, [call |-> dcall, method |-> "GET",
                               name |-> dargs.domain, content |-> "",
                               before |-> dzone[dargs.domain]])
    /\ \E ok \in BOOLEAN :
          IF ok
          THEN dfound' = dzone[dargs.domain] /\ dpc' = "found" /\ dret' = dret
          ELSE dfound' = dfound /\ dpc' = "returned"
               /\ dret' = Returned("failed to find existing record")
    /\ UNCHANGED <<dmap, dzone, dargs, dip, dcall>>

\* EnsureRecord after findRecord: return nil, or updateRecord / createRecord.
\* The write is applied and acknowledged, rejected, or applied with the
\* response lost.
EnsureRecord ==
    /\ dpc = "found"
    /\ LET method == EnsureRecordRequest(dfound, dip)
       IN  IF method = "none"
           THEN /\ dret' = Returned(NoErr)
                /\ UNCHANGED <<dzone, dreqs>>
           ELSE /\ dreqs' = Append(dreqs, [call |-> dcall, method |-> method,
                                           name |-> dargs.domain, content |-> dip,
                                           before |-> dzone[dargs.domain]])
                /\ \E answer \in {"ok", "rejected", "lost"} :
                      /\ dzone' = IF answer = "rejected" THEN dzone
                                  ELSE Applied(dzone, dargs.domain, dip)
                      /\ dret' = Append(dret,
                                   [call |-> dcall,
                                    err |-> IF answer = "ok" THEN NoErr
                                            ELSE "Cloudflare API error",
                                    zone |-> dzone'])
    /\ dpc' = "returned"
    /\ UNCHANGED <<dmap, dargs, dip, dfound, dcall>>

\* ---- the DNS step of a run: the engine starts and ends the attempts ----

DnsInit ==
    /\ dmap \in Mappings
    /\ dzone \in Zones
    /\ dargs = <<>>
    /\ dpc = "idle"
    /\ dip = ""
    /\ dfound = NoRecord
    /\ dreqs = <<>>
    /\ dcall = 0
    /\ dret = <<>>

\* an attempt of the activity begins: EnsureDNSRecord(ctx, domain, ipPlaceholder)
\* with the arguments CDWorkflow passed
EnsureDNSRecord_Begin ==
    /\ ActivityEnsureDNSRecord \in running
    /\ dpc = "idle"
    /\ dargs' = [domain |-> req.SetupDomainName, placeholder |-> req.SetupDomainValue]
    /\ dcall' = dcall + 1
    /\ dpc' = "resolve"
    /\ UNCHANGED <<dmap, dzone, dip, dfound, dreqs, dret>>
    /\ UNCHANGED nonDnsVars

\* the attempt ends with what EnsureDNSRecord returned; the engine retries an
\* error until MaximumAttempts attempts were made
EnsureDNSRecord_End ==
    /\ ActivityEnsureDNSRecord \in running
    /\ dpc = "returned"
    /\ dpc' = "idle"
    /\ running' = running \ {ActivityEnsureDNSRecord}
    /\ outcome' = [outcome EXCEPT ![ActivityEnsureDNSRecord] =
                      IF dret[Len(dret)].err = NoErr THEN "ok"
                      ELSE IF attempt[ActivityEnsureDNSRecord] < MaximumAttempts
                           THEN "pending" ELSE "err"]
    /\ UNCHANGED <<req, pc, attempt, calls, starts, result>>
    /\ UNCHANGED <<dmap, dzone, dargs, dip, dfound, dreqs, dcall, dret>>
    /\ UNCHANGED <<cacheVars, buildVars, remoteVars, execVars, hostVars, doorVars>>

\* the engine, with the attempts of EnsureDNSRecord run in detail
DnsEngine ==
    \/ \E a \in Activities : StartAttempt(a)
    \/ \E a \in Activities \ {ActivityEnsureDNSRecord} : AttemptSucceeds(a)
    \/ \E a \in Activities \ {ActivityEnsureDNSRecord} : AttemptFails(a)

DnsNext ==
    \/ CDWorkflow
    \/ DnsEngine
    \/ EnsureDNSRecord_Begin
    \/ (EnsureDNSRecord_Resolve /\ UNCHANGED nonDnsVars)
    \/ (findRecord /\ UNCHANGED nonDnsVars)
    \/ (EnsureRecord /\ UNCHANGED nonDnsVars)
    \/ EnsureDNSRecord_End

\* ---- EnsureRecord called again and again with the same arguments ----

EnsureInit ==
    /\ dip \in Addresses
    /\ dmap = [p \in {"WEB_IP"} |-> dip]
    /\ dzone \in Zones
    /\ dargs \in [domain : Names, placeholder : {"WEB_IP"}]
    /\ dpc = "idle"
    /\ dfound = NoRecord
    /\ dreqs = <<>>
    /\ dcall = 0
    /\ dret = <<>>

\* a.dnsProvider.EnsureRecord(ctx, domain, ip)
CallEnsureRecord ==
    /\ dpc \in {"idle", "returned"}
    /\ dcall < MaxCalls
    /\ dcall' = dcall + 1
    /\ dpc' = "find"
    /\ UNCHANGED <<dmap, dzone, dargs, dip, dfound, dreqs, dret>>

EnsureNext ==
    \/ (CallEnsureRecord /\ UNCHANGED nonDnsVars)
    \/ (findRecord /\ UNCHANGED nonDnsVars)
    \/ (EnsureRecord /\ UNCHANGED nonDnsVars)

(***************************************************************************)
(* Part VII.  The remote host's directories under two runs for different   *)
(* (environment, repository) pairs, each executing the steps of its        *)
(* command.  A step is taken as a whole and only fails for want of its     *)
(* directory.                                                              *)
(***************************************************************************)

HostRuns == {"run1", "run2"}

\* metadata.environment: oneof=snapshot dev stage production
HostEnvironments == { <<"dev">>, <<"stage">> }

\* source.repo: required, any non-empty string
HostRepos ==
    { <<"org", "/", "app">>, <<"org", "/", "web">>, <<"org", "/", "app", "/">>,
      <<"org", "/", "app", "/", "repo">>, <<"org">> }

HostRequests ==
    [Method : {MethodDeploy, MethodCleanup}, Environment : HostEnvironments, Repo : HostRepos]

HostConfig == [BasePath |-> <<"/tmp">>]

\* the characters of a piece of a path, as far as "/" goes
PathPieces(piece) ==
    CASE piece = "/tmp" -> <<"/", "tmp">>
      [] piece = "/repo" -> <<"/", "repo">>
      [] piece = "/.ssh" -> <<"/", ".ssh">>
      [] piece = "/.deploy/" -> <<"/", ".deploy", "/">>
      [] OTHER -> <<piece>>

RECURSIVE Flatten(_)
Flatten(path) ==
    IF path = <<>> THEN <<>> ELSE PathPieces(Head(path)) \o Flatten(Tail(path))

\* the directory a path string names: its components, empty ones dropped
Segments(path) == SelectSeq(Split(Flatten(path), "/"), LAMBDA part : part # <<>>)

\* directory p is dir or lies below it
Under(dir, p) == Len(dir) <= Len(p) /\ SubSeq(p, 1, Len(dir)) = dir

\* rm -rf dir
RemoveAll(files, dir) == {p \in files : ~Under(dir, p)}

HostTmpDir(r) == Segments(TmpDir(hreq[r], HostConfig))

HostRepoDir(r) == Segments(RepoDir(hreq[r], HostConfig))

HostDeployDir(r) == Segments(DeployDir(hreq[r], HostConfig))

HostInit ==
    /\ hreq \in [HostRuns -> HostRequests]
    /\ \A r, q \in HostRuns :
          r # q => <<hreq[r].Environment, hreq[r].Repo>> # <<hreq[q].Environment, hreq[q].Repo>>
    /\ hpc = [r \in HostRuns |-> "start"]
    /\ hfiles = {}

\* deploy: rm -rf tmpDir && mkdir -p tmpDir && cd tmpDir
HostReset(r) ==
    /\ hreq[r].Method = MethodDeploy
    /\ hpc[r] = "start"
    /\ hfiles' = RemoveAll(hfiles, HostTmpDir(r)) \cup {HostTmpDir(r)}
    /\ hpc' = [hpc EXCEPT ![r] = "fetch"]
    /\ UNCHANGED hreq

\* deploy: the clone into repo, relative to the workspace the shell is in
HostFetch(r) ==
    /\ hpc[r] = "fetch"
    /\ IF HostTmpDir(r) \in hfiles
       THEN /\ hfiles' = hfiles \cup {HostRepoDir(r), HostDeployDir(r)}
            /\ hpc' = [hpc EXCEPT ![r] = "script"]
       ELSE /\ hfiles' = hfiles
            /\ hpc' = [hpc EXCEPT ![r] = "failed"]
    /\ UNCHANGED hreq

\* deploy: cd deployDir && chmod +x deploy.sh && ... bash ./deploy.sh
HostScript(r) ==
    /\ hpc[r] = "script"
    /\ hpc' = [hpc EXCEPT ![r] = IF HostDeployDir(r) \in hfiles THEN "teardown" ELSE "failed"]
    /\ UNCHANGED <<hreq, hfiles>>

\* deploy: the final rm -rf tmpDir
HostTeardown(r) ==
    /\ hpc[r] = "teardown"
    /\ hfiles' = RemoveAll(hfiles, HostTmpDir(r))
    /\ hpc' = [hpc EXCEPT ![r] = "done"]
    /\ UNCHANGED hreq

\* cleanup: if [ -d deployDir ]; then ...; fi && rm -rf tmpDir
HostCleanup(r) ==
    /\ hreq[r].Method = MethodCleanup
    /\ hpc[r] = "start"
    /\ hfiles' = RemoveAll(hfiles, HostTmpDir(r))
    /\ hpc' = [hpc EXCEPT ![r] = "done"]
    /\ UNCHANGED hreq

HostNext ==
    \E r \in HostRuns :
        \/ (HostReset(r) /\ UNCHANGED nonHostVars)
        \/ (HostFetch(r) /\ UNCHANGED nonHostVars)
        \/ (HostScript(r) /\ UNCHANGED nonHostVars)
        \/ (HostTeardown(r) /\ UNCHANGED nonHostVars)
        \/ (HostCleanup(r) /\ UNCHANGED nonHostVars)

(***************************************************************************)
(* Part II: properties                                                     *)
(***************************************************************************)

\* C6: a cache check made less than cacheTTL (5 minutes) after the last
\* successful store for its key returns the stored value and goes on without
\* a live fetch; a check made once the TTL has elapsed goes to the live fetch
\* and leaves the expired entry in the map.
C6_TTLWindow ==
    [][\A p \in Procs :
          (cpc[p] = "lookup" /\ cpc'[p] # "lookup") =>
            LET k == CurrentKey(p)
            IN  IF k \in DOMAIN stored /\ now < stored[k].at + 5
                  THEN /\ cpc'[p] = "got"
                       /\ cval'[p] = stored[k].val
                       /\ clook'[p] = "hit"
                       /\ items' = items
                  ELSE /\ cpc'[p] = "live"
                       /\ items' = items
                       /\ k \in DOMAIN stored => (k \in DOMAIN items' /\ clook'[p] = "expired")]_vars

\* an expired entry that is still in the map while its key is fetched live,
\* in a call that took its first secret from the cache
C6_Witness ==
    \E p \in Procs :
        /\ cpc[p] = "live"
        /\ clook[p] = "expired"
        /\ CurrentKey(p) \in DOMAIN items
        /\ now >= stored[CurrentKey(p)].at + 5
        /\ ci[p] = 2
        /\ \E k \in DOMAIN stored : now < stored[k].at + 5 /\ stored[k].at < now

\* the responses that are a failed fetch: transport error, unreadable body,
\* non-200 status, undecodable body
FailedResponse(r) ==
    \/ r.transport = "error"
    \/ r.read = "error"
    \/ r.status # 200
    \/ r.body \in {"not_json", "bare_string", "secret_bad_type"}

\* C7: a failed live fetch returns an error from fetchSecretRaw and leaves the
\* cache as it was; FetchSecretsByMapping then returns a nil map together with
\* the wrapped error, again without touching the cache.
C7_FailureNeverCached ==
    [][\A p \in Procs :
          /\ (cpc[p] = "live" /\ cpc'[p] # "live" /\ FailedResponse(cresp'[p])) =>
                /\ cpc'[p] = "failed"
                /\ cret'[p].err \notin {"nil", "none"}
                /\ items' = items
          /\ (cpc[p] = "failed" /\ cpc'[p] # "failed") =>
                /\ cpc'[p] = "returned"
                /\ cret'[p].isNil
                /\ cret'[p].secrets = EmptyMap
                /\ cret'[p].err \notin {"nil", "none"}
                /\ items' = items
          /\ (cpc'[p] = "store" /\ cpc[p] # "store") => ~FailedResponse(cresp'[p])]_vars

\* the second secret of a call fails after the first one was fetched
C7_Witness ==
    \E p \in Procs :
        /\ cpc[p] = "failed"
        /\ ci[p] = 2
        /\ DOMAIN cres[p] = {"DB_PASSWORD"}
        /\ cresp[p].body = "bare_string"
        /\ CurrentKey(p) \notin DOMAIN items

(***************************************************************************)
(* Part III: properties                                                    *)
(***************************************************************************)

\* the command is the guard and nothing else: echo 'Error: ...' && exit 1
IsGuard(cmd) ==
    LET toks == Lex(cmd)
    IN  /\ Len(toks) = 5
        /\ toks[1] = WordToken("", <<"echo">>)
        /\ toks[2].t = "word" /\ toks[2].asg = "" /\ Head(toks[2].v) = "Error:"
        /\ toks[3] = OpToken("&&")
        /\ toks[4] = WordToken("", <<"exit">>)
        /\ toks[5] = WordToken("", <<"1">>)

\* the command has a step that removes, creates or enters a directory
HasWorkspaceStep(cmd) ==
    LET names == CommandNames(Lex(cmd))
    IN  \E k \in DOMAIN names : names[k] \in { <<"rm">>, <<"mkdir">>, <<"cd">> }

\* the fields the builder chosen by the method checks
MissingForBuilder(rq, cfg) ==
    \/ rq.Repo = <<>>
    \/ rq.Environment = <<>>
    \/ cfg.BasePath = <<>>
    \/ rq.Method = MethodDeploy /\ (rq.Branch = <<>> \/ rq.Commit = <<>>)

\* C8 as stated: whenever one of the five required fields is empty, the
\* builder emits only the guard and no remove/create/enter step.
C8_BuilderEmitsOnlyGuard ==
    (bpc = "built" /\ MissingField(breq, bcfg) # "") =>
        (IsGuard(command) /\ ~HasWorkspaceStep(command))

\* C8, amended: the builder emits only the guard when repository, environment
\* or base path is empty and, for a deploy, when branch or commit is empty;
\* and for a request with any of the five fields empty RunSSHDeploy returns
\* an error without building or sending anything.
C8_GuardOrNothingSent ==
    /\ (bpc = "built" /\ MissingForBuilder(breq, bcfg)) =>
          (IsGuard(command) /\ ~HasWorkspaceStep(command))
    /\ (bpc = "returned" /\ MissingField(breq, bcfg) # "") =>
          (sent = <<>> /\ command = <<>> /\ bret \notin {"nil", "none"})

\* a deploy request without a commit, for which the builder emitted the guard
C8_Witness ==
    /\ bpc = "built"
    /\ breq.Method = MethodDeploy
    /\ breq.Commit = <<>>
    /\ MissingField(breq, bcfg) = "Source.Commit"
    /\ command = GuardFor(<<"Source.Commit">>)

\* C9: two builds from the same request and the same secrets map give the
\* same command string.
C9_BuildsByteIdentical ==
    bpc = "rebuilt" => rebuilt = command

\* the assignments in front of the command name at token k
EnvPrefix(toks, k) ==
    {j \in 1..(k - 1) : \A m \in j..(k - 1) : toks[m].t = "word" /\ toks[m].asg # ""}

\* the invocations of the script: bash ./deploy.sh or bash ./cleanup.sh in
\* command position
ScriptInvocations(toks) ==
    {k \in DOMAIN toks :
        /\ toks[k] = WordToken("", <<"bash">>)
        /\ InCommandPrefix(toks, k)
        /\ k < Len(toks)
        /\ toks[k + 1] \in {WordToken("", <<"./", "deploy.sh">>), WordToken("", <<"./", "cleanup.sh">>)}}

\* the value the command at token k finds in its environment for name
\* (the last assignment wins), <<"<unset>">> when there is none
ReceivedValue(toks, k, name) ==
    LET js == {j \in EnvPrefix(toks, k) : toks[j].asg = name}
    IN  IF js = {} THEN <<"<unset>">>
        ELSE toks[CHOOSE j \in js : \A i \in js : i <= j].v

\* the steps of a script: its tokens with the secret values left out
StepsOf(toks, names) ==
    [k \in DOMAIN toks |->
        IF toks[k].t = "heredoc" THEN HereDocToken(<<>>)
        ELSE IF toks[k].asg \in names THEN WordToken(toks[k].asg, <<>>)
        ELSE toks[k]]

\* the same secrets map with every value other than the private key
\* replaced by a plain one
PlainSecrets(secrets) ==
    [k \in DOMAIN secrets |-> IF k = PrivateKeyName THEN secrets[k] ELSE PlainValue]

ScriptSecretNames(secrets) == DOMAIN secrets \ {PrivateKeyName}

\* C10: undoing the executor's sh -c quoting and then the builder's quoting,
\* every invocation of the script finds each secret's original value in its
\* environment, and the steps are the steps the same request has with plain
\* values; without a repository key the script is invoked exactly once.
C10_QuotingRoundTrip ==
    (bpc = "returned" /\ sent # <<>>) =>
        LET toks == RemoteTokens(sent)
            names == ScriptSecretNames(bsecrets)
        IN  /\ \A k \in ScriptInvocations(toks) :
                  \A n \in names : ReceivedValue(toks, k, n) = bsecrets[n]
            /\ PrivateKeyName \notin DOMAIN bsecrets => Cardinality(ScriptInvocations(toks)) = 1
            /\ \E order \in MapOrders(bsecrets) :
                  StepsOf(toks, names)
                    = StepsOf(RemoteTokens(ExecCommand(
                          BuildCommand(breq, PlainSecrets(bsecrets), bcfg, order))), names)

\* a value with a single quote and a $ reached the deploy script unchanged
C10_Witness ==
    /\ bpc = "returned"
    /\ sent # <<>>
    /\ breq.Method = MethodDeploy
    /\ "DB_PASSWORD" \in DOMAIN bsecrets
    /\ bsecrets["DB_PASSWORD"] = <<"'", "$">>
    /\ \E k \in ScriptInvocations(RemoteTokens(sent)) :
          ReceivedValue(RemoteTokens(sent), k, "DB_PASSWORD") = <<"'", "$">>

\* C11: the private-key entry is passed neither in an environment
\* assignment of the command nor through the transport's Setenv.
C11_KeyNeverInEnvironment ==
    (bpc = "returned" /\ sent # <<>>) =>
        /\ PrivateKeyName \notin DOMAIN setenv
        /\ \A k \in DOMAIN RemoteTokens(sent) : RemoteTokens(sent)[k].asg # PrivateKeyName

\* C20: a cleanup request with repository, environment and base path, with
\* or without branch and commit, is accepted: its cleanup command is built
\* and handed to the remote host.
C20_CleanupNeedsNoBranch ==
    ( /\ bpc = "returned"
      /\ breq.Method = MethodCleanup
      /\ breq.Repo # <<>> /\ breq.Environment # <<>> /\ bcfg.BasePath # <<>>
      /\ getSSHPrivateKey(bcfg) = "" ) =>
        /\ \E order \in MapOrders(bsecrets) :
              command = buildCleanupCommand(breq, bsecrets, bcfg, order)
        /\ sent = ExecCommand(command)

(***************************************************************************)
(* Part IV: properties                                                     *)
(***************************************************************************)

\* the entries of the log that ran a command of this kind
Ran(kind) == {n \in DOMAIN rlog : KindAt(rtoks, rlog[n].at) = kind}

\* the token after the source-fetch step "(A) || (B)", 0 when the script
\* has no such step
FetchEnd ==
    LET opens == {k \in DOMAIN rtoks :
                    /\ IsOp(rtoks[k], "(")
                    /\ CommandStart(rtoks, k)
                    /\ k < Len(rtoks)
                    /\ KindAt(rtoks, k + 1) = "clone-branch"}
    IN  IF opens = {} THEN 0
        ELSE LET aOpen == CHOOSE k \in opens : TRUE
                 aClose == MatchingClose(rtoks, aOpen, "(", ")")
             IN  SkipCommand(rtoks, aClose + 2)

\* alternative B ran to its end with every command succeeding
BSucceeded ==
    \E n \in Ran("clone-no-checkout") :
        /\ n + 4 <= Len(rlog)
        /\ \A i \in n..(n + 4) : rlog[i].rc = 0
        /\ KindAt(rtoks, rlog[n + 2].at) = "fetch"
        /\ KindAt(rtoks, rlog[n + 3].at) = "checkout"

ASucceeded == \E n \in Ran("clone-branch") : rlog[n].rc = 0

AFailed == \E n \in Ran("clone-branch") : rlog[n].rc # 0

\* C12: alternative B is started only right after alternative A exited
\* non-zero, and is started whenever A did; where the fetch step ends its
\* status is zero exactly if A succeeded or B succeeded.
C12_FallbackIffFirstFails ==
    /\ \A n \in Ran("clone-no-checkout") :
          n > 1 /\ (n - 1) \in Ran("clone-branch") /\ rlog[n - 1].rc # 0
    /\ \A n \in Ran("clone-branch") :
          (rlog[n].rc # 0 /\ (Len(rlog) > n \/ rstate = "exited")) =>
              (n + 1) \in Ran("clone-no-checkout")
    /\ (Ran("clone-branch") # {} /\ rip = FetchEnd) => (rrc = 0 <=> (ASucceeded \/ BSucceeded))

\* C13: the deploy script is only ever started from the requested commit.
C13_ScriptRunsRequestedCommit ==
    (breq.Method = MethodDeploy /\ Ran("script") # {}) => rscript = breq.Commit

\* C14: the cleanup command has no source-fetch step; without the deploy
\* directory the script is skipped and the command goes on to the removal;
\* and every run of the cleanup command in which the script was skipped,
\* succeeded or exited non-zero runs the workspace removal.
C14_CleanupAlwaysRemoves ==
    (bpc = "executing" /\ breq.Method = MethodCleanup) =>
        /\ \A k \in DOMAIN rtoks :
              rtoks[k].t = "word" => rtoks[k].v \notin {<<"git">>, <<"clone">>}
        /\ (rstate = "exited" /\ Ran("test") # {} /\ \A n \in Ran("test") : rlog[n].rc # 0) =>
              (Ran("script") = {} /\ Ran("rm") # {})
        /\ (rstate = "exited" /\ \A n \in DOMAIN rlog : rlog[n].rc # 0 => n \in Ran("script")) =>
              Ran("rm") # {}

(***************************************************************************)
(* Part V: properties                                                      *)
(***************************************************************************)

\* C15: once the connection has been opened, Execute returns with the
\* connection closed and no session left open, whichever way it returns; a
\* caller waiting in the select returns once the context is done, whatever
\* the remote command does; and the goroutine, once started, finishes.
C15_ClosedAndFinished ==
    /\ []((xpc = "done" /\ xconn # "none") => (xconn = "closed" /\ xsess # "open"))
    /\ ((xpc = "select" /\ xctx = "done") ~> (xpc = "done"))
    /\ ((xgo # "none") ~> (xgo = "done"))

\* Execute returned the context's error with the remote command still
\* running; both are closed and the goroutine has finished all the same
C15_Witness ==
    /\ xpc = "done"
    /\ xret.err = "ctx"
    /\ xremote = "running"
    /\ xconn = "closed"
    /\ xsess = "closed"
    /\ xgo = "done"

\* C16: when Execute returns an error after the remote command has started,
\* the output it returns is all the output captured by then.
C16_ErrorKeepsOutput ==
    (xpc = "done" /\ xremote # "none" /\ xret.err \notin {"none", "nil"}) =>
        xret.output = xcap

\* the configuration says in so many words that checking is off
ExplicitlyDisabled ==
    \/ xenv \in {"false", "0"}
    \/ (xfile.exists /\ xfile.strict = "false")

\* C17: Execute dials without verifying the host key only when the
\* configuration explicitly disables strict checking, and then it has logged
\* a warning.
C17_StrictUnlessDisabled ==
    (xverify = "insecure") =>
        /\ ExplicitlyDisabled
        /\ "strict host key checking is disabled" \in xwarn

(***************************************************************************)
(* Part VI: properties                                                     *)
(***************************************************************************)

\* the run asked for a DNS record whose placeholder the mapping lacks
PlaceholderAbsent ==
    /\ WantsEnsureDNS
    /\ req.SetupDomainValue \notin DOMAIN dmap

\* the API requests that write: createRecord and updateRecord
Writes == {k \in DOMAIN dreqs : dreqs[k].method \in {"POST", "PUT"}}

\* C18: for a placeholder the mapping lacks, Resolve returns an error and no
\* address; every attempt of the DNS step then returns that error without a
\* single request to the DNS provider; and the run goes on to the
\* notification step and returns nil all the same.
C18_AbsentPlaceholderFailsDNSOnly ==
    /\ \A m \in Mappings : \A p \in {"WEB_IP", "DB_IP", ""} :
          p \notin DOMAIN m =>
              (Resolve(m, p).err # NoErr /\ Resolve(m, p).ip = "")
    /\ PlaceholderAbsent =>
          /\ dreqs = <<>>
          /\ \A k \in DOMAIN dret : dret[k].err = Resolve(dmap, req.SetupDomainValue).err
          /\ outcome[ActivityEnsureDNSRecord] # "ok"
          /\ outcome[ActivityEnsureDNSRecord] = "err" =>
                /\ pc \in {"AwaitDNS", "Step4", "AwaitNotify", "Done"}
                /\ result \in {"none", NoErr}
          /\ (pc = "Done" /\ outcome[ActivityEnsureDNSRecord] = "err") =>
                /\ result = NoErr
                /\ req.NotifyDiscordEnable =>
                      \E i \in DOMAIN calls :
                          /\ calls[i].name = ActivitySendDiscordNotification
                          /\ calls[i].arg = "Deployment Successful"

\* a run whose DNS step used up its attempts on an absent placeholder, sent
\* the success notification and returned nil
C18_Witness ==
    /\ PlaceholderAbsent
    /\ attempt[ActivityEnsureDNSRecord] = MaximumAttempts
    /\ Len(dret) = MaximumAttempts
    /\ outcome[ActivityEnsureDNSRecord] = "err"
    /\ req.NotifyDiscordEnable
    /\ pc = "Done"
    /\ result = NoErr

\* C19: EnsureRecord writes only when the record for the name does not hold
\* the address; after a call that returned nil the record holds the address;
\* and a call that follows one that returned nil writes nothing and leaves
\* the zone as the first one left it.
C19_EnsureRecordIdempotent ==
    /\ \A k \in Writes : dreqs[k].before # dreqs[k].content
    /\ \A k \in DOMAIN dret :
          dret[k].err = NoErr => dret[k].zone[dargs.domain] = dip
    /\ \A k \in DOMAIN dret :
          (k > 1 /\ dret[k - 1].err = NoErr) =>
              /\ dret[k].zone = dret[k - 1].zone
              /\ \A w \in Writes : dreqs[w].call # dret[k].call

\* a first call that updated the record and a second call that returned nil
C19_Witness ==
    /\ Len(dret) = 2
    /\ dret[1].err = NoErr
    /\ dret[2].err = NoErr
    /\ \E w \in Writes : dreqs[w].call = 1 /\ dreqs[w].method = "PUT"
    /\ dzone[dargs.domain] = dip

(***************************************************************************)
(* Part I: further properties                                              *)
(***************************************************************************)

NotifyFailed == outcome[ActivitySendDiscordNotification] = "err"

\* C30: when a fatal step (secret fetch or remote execution) failed and the
\* failure notification failed as well, the run ends in Failed and returns
\* the error of the step, never the error of the notification.
C30_FailureNotifyBestEffort ==
    /\ [](((FetchFailed \/ SSHFailed) /\ NotifyFailed) =>
            /\ pc = "Failed" \/ pc \in {"AwaitFetchFailureNotify", "AwaitSSHFailureNotify"}
            /\ result # ErrOf(ActivitySendDiscordNotification)
            /\ pc = "Failed" =>
                  result = IF FetchFailed THEN ErrOf(ActivityFetchInfisicalSecrets)
                           ELSE ErrOf(ActivityRunSSHDeploy))
    /\ (((FetchFailed \/ SSHFailed) /\ NotifyFailed) ~> (pc = "Failed"))

\* the remote execution failed, every attempt of the failure notification
\* failed too, and the run returned the execution's error
C30_Witness ==
    /\ pc = "Failed"
    /\ SSHFailed
    /\ NotifyFailed
    /\ attempt[ActivitySendDiscordNotification] = MaximumAttempts
    /\ result = ErrOf(ActivityRunSSHDeploy)

\* the notifications the sequencer scheduled, and the failure notifications
\* among them
Notifications == CallCount(ActivitySendDiscordNotification)

FailureNotifications ==
    CallsWithArg(ActivitySendDiscordNotification, "Failed to fetch secrets")
      + CallsWithArg(ActivitySendDiscordNotification, "Deployment Failed")

\* C36 as stated: in a run whose request has the notification toggle
\* disabled no notification is ever scheduled or attempted, on the success
\* path and on every failure path; and the sequencer schedules at most one
\* notification per run.
C36_NoNotificationWhenDisabled ==
    /\ ~req.NotifyDiscordEnable =>
          /\ Notifications = 0
          /\ attempt[ActivitySendDiscordNotification] = 0
    /\ Notifications <= 1

\* C36 (amended): the toggle governs the success notification only.  With the
\* toggle disabled no success notification is scheduled; a failure
\* notification is scheduled exactly when a fatal step (secret fetch, remote
\* execution) failed, whatever the toggle says; and the sequencer schedules at
\* most one notification per run, which the engine attempts at most
\* MaximumAttempts times.
C36_ToggleGatesSuccessNotificationOnly ==
    /\ ~req.NotifyDiscordEnable =>
          CallsWithArg(ActivitySendDiscordNotification, "Deployment Successful") = 0
    /\ FailureNotifications = 1 <=>
          /\ FetchFailed \/ SSHFailed
          /\ pc \in {"AwaitFetchFailureNotify", "AwaitSSHFailureNotify", "Failed"}
    /\ pc = "Failed" => FailureNotifications = 1
    /\ Notifications <= 1
    /\ attempt[ActivitySendDiscordNotification] <= MaximumAttempts
    /\ Notifications = 0 => attempt[ActivitySendDiscordNotification] = 0

\* a run with the toggle disabled whose remote execution failed: it ended in
\* Failed after one failure notification was scheduled and attempted
C36_Witness ==
    /\ ~req.NotifyDiscordEnable
    /\ pc = "Failed"
    /\ SSHFailed
    /\ CallsWithArg(ActivitySendDiscordNotification, "Deployment Failed") = 1
    /\ attempt[ActivitySendDiscordNotification] >= 1

\* the DNS actions the sequencer scheduled
DNSActions == CallCount(ActivityEnsureDNSRecord) + CallCount(ActivityRemoveDNSRecord)

\* C37: a run schedules at most one DNS action and its kind is fixed by the
\* method: a deploy run never schedules or attempts a removal, a cleanup run
\* never an upsert; an upsert needs the setup toggle and a non-empty name and
\* value, a removal needs the cleanup toggle and a non-empty name.
C37_OneDNSActionByMethod ==
    /\ DNSActions <= 1
    /\ req.Method = MethodDeploy =>
          /\ CallCount(ActivityRemoveDNSRecord) = 0
          /\ attempt[ActivityRemoveDNSRecord] = 0
    /\ req.Method = MethodCleanup =>
          /\ CallCount(ActivityEnsureDNSRecord) = 0
          /\ attempt[ActivityEnsureDNSRecord] = 0
    /\ (CallCount(ActivityEnsureDNSRecord) > 0 \/ attempt[ActivityEnsureDNSRecord] > 0) =>
          /\ req.SetupDomainEnable
          /\ req.SetupDomainName # ""
          /\ req.SetupDomainValue # ""
    /\ (CallCount(ActivityRemoveDNSRecord) > 0 \/ attempt[ActivityRemoveDNSRecord] > 0) =>
          /\ req.CleanupDomainEnable
          /\ req.CleanupDomainName # ""

\* a finished cleanup run whose request also carries a complete, enabled
\* setup domain: the removal was scheduled and attempted, no upsert was
C37_Witness ==
    /\ pc = "Done"
    /\ req.Method = MethodCleanup
    /\ req.SetupDomainEnable /\ req.SetupDomainName # "" /\ req.SetupDomainValue # ""
    /\ CallCount(ActivityRemoveDNSRecord) = 1
    /\ attempt[ActivityRemoveDNSRecord] >= 1
    /\ CallCount(ActivityEnsureDNSRecord) = 0

\* C38: provided every activity attempt returns or times out, every run
\* reaches Done or Failed; no activity is attempted more than MaximumAttempts
\* times and a run makes at most four times that many attempts; and once the
\* run is terminal no activity is scheduled, started or still running.
C38_RunTerminates ==
    /\ <>Terminal
    /\ [](/\ \A a \in Activities : attempt[a] <= MaximumAttempts
          /\ Len(starts) <= 4 * MaximumAttempts)
    /\ [](Terminal =>
            /\ running = {}
            /\ \A a \in Activities : outcome[a] # "pending")
    /\ [][Terminal => (calls' = calls /\ starts' = starts /\ attempt' = attempt)]_vars

\* a run that ended in Failed after the secret fetch and then the failure
\* notification each used up every attempt
C38_Witness ==
    /\ pc = "Failed"
    /\ attempt[ActivityFetchInfisicalSecrets] = MaximumAttempts
    /\ attempt[ActivitySendDiscordNotification] = MaximumAttempts
    /\ Len(starts) = 2 * MaximumAttempts
    /\ running = {}

(***************************************************************************)
(* Part II: further properties                                             *)
(***************************************************************************)

\* two entries of the list share an env_name
DuplicateEnvName(ms) ==
    \E i, j \in DOMAIN ms : i # j /\ ms[i].EnvName = ms[j].EnvName

\* C21: a mapping list with two entries of the same env_name never reaches
\* the secret fetch, and no call returns a map with fewer entries than it
\* had mappings.
C21_DuplicateEnvNameRejected ==
    \A p \in Procs :
        /\ DuplicateEnvName(cargs[p].mappings) =>
              cpc[p] \notin {"lookup", "live", "store", "got", "failed"}
        /\ (cpc[p] = "got" /\ ci[p] = Len(cargs[p].mappings)) =>
              Cardinality(DOMAIN cres[p] \cup {CurrentMapping(p).EnvName}) = Len(cargs[p].mappings)

\* the body shapes of a 200 response that carry the secret's value in the
\* structured form or as a bare value
ValueBodies == {"secret_object", "bare_string"}

\* C22: after a 200 response whose body was read, fetchSecretRaw has the
\* response's value when the body is the structured form or a bare value; for
\* an unexpected body it has an error; it never goes on with an empty value.
C22_DecodesOrFails ==
    \A p \in Procs :
        (cpc[p] \in {"store", "failed"} /\ cresp[p].transport = "ok"
            /\ cresp[p].read = "ok" /\ cresp[p].status = 200) =>
            /\ cresp[p].body \in ValueBodies =>
                  (cpc[p] = "store" /\ cval[p] = cresp[p].value)
            /\ cresp[p].body \in {"object_no_secret", "secret_bad_type", "not_json"} =>
                  (cpc[p] = "failed" /\ cret[p].err \notin {"nil", "none"})
            /\ cpc[p] = "store" => cval[p] # ""

\* C25: a caller holds no cache lock between two steps, so none during the
\* live fetch; it has released every lock it acquired exactly once; and no
\* lookup brings the process down.
C25_LocksReleasedOnce ==
    \A p \in Procs :
        /\ cheld[p] = 0
        /\ cpc[p] # "crashed"

\* caller p is inside fetchSecretRaw
InFetchSecretRaw(p) == cpc[p] \in {"lookup", "live", "store", "got"}

\* the logical secret caller p is looking up
CurrentSecret(p) ==
    << cargs[p].workspaceSlug, cargs[p].environment,
       CurrentMapping(p).Path, CurrentMapping(p).SecretName >>

\* C32: two lookups of different (workspace, environment, path, secret name)
\* tuples never use the same cache key.
C32_CacheKeysInjective ==
    \A p, q \in Procs :
        (InFetchSecretRaw(p) /\ InFetchSecretRaw(q) /\ CurrentSecret(p) # CurrentSecret(q))
            => CurrentKey(p) # CurrentKey(q)

\* caller p's step is the cache update of lines 272-280
StoreStep(p) == cpc[p] = "store" /\ cpc'[p] = "got"

\* C33: under every interleaving of the callers, a value taken from the
\* cache is the value of the last store for that key, made less than
\* cacheTTL ago; a store writes, in one step, the value the storing caller's
\* own successful live fetch returned together with its own expiry, and
\* touches no other key; nothing else changes the cache.  So after concurrent
\* misses on one key the entry is the whole result of one of the fetches.
C33_EntryIsOneWholeFetch ==
    /\ [](\A k \in DOMAIN items :
             /\ k \in DOMAIN stored
             /\ items[k].expiresAt = stored[k].at + cacheTTL
             /\ \E name \in DOMAIN items[k].secrets :
                   items[k].secrets = MapPut(EmptyMap, name, stored[k].val))
    /\ [][\A p \in Procs :
            /\ (cpc[p] = "lookup" /\ clook'[p] = "hit") =>
                  /\ CurrentKey(p) \in DOMAIN stored
                  /\ cval'[p] = stored[CurrentKey(p)].val
                  /\ now < stored[CurrentKey(p)].at + cacheTTL
            /\ StoreStep(p) =>
                  /\ DecodeResponse(cresp[p]).ok
                  /\ cval[p] = DecodeResponse(cresp[p]).value
                  /\ items'[CurrentKey(p)] =
                        [ secrets |-> MapPut(EmptyMap, CurrentMapping(p).SecretName, cval[p]),
                          expiresAt |-> now + cacheTTL ]
                  /\ \A k \in DOMAIN items \ {CurrentKey(p)} :
                        k \in DOMAIN items' /\ items'[k] = items[k]]_vars
    /\ [][items' # items => \E p \in Procs : StoreStep(p)]_vars

\* two callers missed the same key at the same time and fetched different
\* values; one has stored its value and the other is about to store
C33_Witness ==
    /\ cpc["run1"] = "store" /\ clook["run1"] = "miss"
    /\ cpc["run2"] = "got" /\ clook["run2"] = "miss"
    /\ CurrentKey("run1") = CurrentKey("run2")
    /\ cval["run1"] # cval["run2"]
    /\ items[CurrentKey("run2")].secrets[CurrentMapping("run2").SecretName] = cval["run2"]
    /\ stored[CurrentKey("run2")].at < now

(***************************************************************************)
(* Part III: further properties                                            *)
(***************************************************************************)

\* C26: whenever Execute came back with an error, RunSSHDeploy returned an
\* error and exactly the output Execute captured, whatever signature the
\* output contains; and without an error it returned the output and nil.
C26_ClassificationKeepsOutput ==
    (bpc = "returned" /\ sent # <<>>) =>
        /\ bout = bexec.output
        /\ bexec.failed <=> bret # "nil"

\* a failed execution whose output has the permission-denied signature came
\* back classified, with its output
C26_Witness ==
    /\ bpc = "returned"
    /\ bexec.failed
    /\ bexec.output = <<"x", "Permission denied", "\n">>
    /\ bret = "SSH authentication failed (Permission denied)"
    /\ bout = bexec.output

\* the variables the script is to find in its environment, by name
ScriptEnvironment(rq, secrets) ==
    LET fixed == {"REPO_NAME", "TRACE_ID", "ENVIRONMENT"}
                    \cup (IF rq.PRNumber # <<>> THEN {"PR_NUMBER"} ELSE {})
    IN  [n \in fixed \cup ScriptSecretNames(secrets) |->
            CASE n = "REPO_NAME" -> rq.Repo
              [] n = "PR_NUMBER" -> rq.PRNumber
              [] n = "TRACE_ID" -> rq.TraceID
              [] n = "ENVIRONMENT" -> rq.Environment
              [] OTHER -> secrets[n]]

\* C28: the assignments in front of every invocation of the script are
\* exactly REPO_NAME, TRACE_ID and ENVIRONMENT with the request's values,
\* PR_NUMBER when the request has a pull-request number, and one per
\* resolved secret other than the private key, each once.
C28_EnvPrefixExact ==
    (bpc = "returned" /\ sent # <<>>) =>
        LET toks == RemoteTokens(sent)
            env == ScriptEnvironment(breq, bsecrets)
        IN  \A k \in ScriptInvocations(toks) :
               /\ {toks[j].asg : j \in EnvPrefix(toks, k)} = DOMAIN env
               /\ Cardinality(EnvPrefix(toks, k)) = Cardinality(DOMAIN env)
               /\ \A j \in EnvPrefix(toks, k) : toks[j].v = env[toks[j].asg]

\* the metadata variables buildScriptExecutionCommand always sets
MetadataNames == {"REPO_NAME", "PR_NUMBER", "TRACE_ID", "ENVIRONMENT"}

\* resolved secrets whose env_name is the name of a metadata variable
\* (validateConditionalFields only asks for a non-empty env_name)
MetadataSecretMaps ==
    { [k \in ks \cup {"DB_PASSWORD"} |-> IF k = "DB_PASSWORD" THEN PlainValue ELSE <<"other">>] :
         ks \in {names \in SUBSET MetadataNames : Cardinality(names) <= 2} }

\* complete requests, a usable key, and secrets named like metadata variables
MetadataNameInit ==
    /\ breq \in {rq \in BuildRequests : MissingField(rq, [BasePath |-> <<"/tmp">>]) = ""}
    /\ bcfg \in {cfg \in BuildConfigs : cfg.BasePath # <<>>}
    /\ bsecrets \in MetadataSecretMaps
    /\ bpc = "ready"
    /\ command = <<>>
    /\ rebuilt = <<>>
    /\ sent = <<>>
    /\ setenv = <<>>
    /\ bret = "none"
    /\ bexec = NotExecuted
    /\ bout = <<>>

\* C35: every invocation of the script finds the request's own values in
\* REPO_NAME, PR_NUMBER, TRACE_ID and ENVIRONMENT, whatever the env_names of
\* the resolved secrets are.
C35_MetadataNotOverridden ==
    (bpc = "returned" /\ sent # <<>>) =>
        LET toks == RemoteTokens(sent)
        IN  \A k \in ScriptInvocations(toks) :
               /\ ReceivedValue(toks, k, "REPO_NAME") = breq.Repo
               /\ ReceivedValue(toks, k, "PR_NUMBER") = breq.PRNumber
               /\ ReceivedValue(toks, k, "TRACE_ID") = breq.TraceID
               /\ ReceivedValue(toks, k, "ENVIRONMENT") = breq.Environment

(***************************************************************************)
(* Part IV: further properties                                             *)
(***************************************************************************)

\* the names of the commands of a script, as a sequence in script order
NamesInOrder(toks) ==
    LET names == CommandNames(toks)
        idx == DOMAIN names
        nth[n \in 1..Cardinality(idx)] ==
            CHOOSE k \in idx : Cardinality({i \in idx : i < k}) = n - 1
    IN  [n \in 1..Cardinality(idx) |-> names[nth[n]]]

\* the commands of the five steps of a deploy, in order
DeployStepNames(hasKey) ==
    LET reset == << <<"rm">>, <<"mkdir">>, <<"cd">> >>
        staging == << <<"mkdir">>, <<"cd">>, <<"printf">>, <<"chmod">>, <<"cat">>, <<"cd">> >>
        fetch == << <<"git">>, <<"git">>, <<"cd">>, <<"git">>, <<"git">>, <<"cd">> >>
        script == << <<"cd">>, <<"chmod">>, <<"bash">> >>
        teardown == << <<"rm">> >>
    IN  reset \o (IF hasKey THEN staging ELSE <<>>) \o fetch \o script \o teardown

\* the token that opens the source-fetch step "(A) || (B)", 0 when the
\* script has no such step
FetchStart ==
    LET opens == {k \in DOMAIN rtoks :
                    /\ IsOp(rtoks[k], "(")
                    /\ CommandStart(rtoks, k)
                    /\ k < Len(rtoks)
                    /\ KindAt(rtoks, k + 1) = "clone-branch"}
    IN  IF opens = {} THEN 0 ELSE CHOOSE k \in opens : TRUE

\* token k belongs to the source-fetch step
InFetch(k) == FetchStart # 0 /\ FetchStart <= k /\ k < FetchEnd

\* C27: after the executor's export of PATH the deploy command is the steps
\* reset, key staging, fetch, script, teardown in that order and nothing
\* after the teardown; a command outside the fetch step that exited
\* non-zero is followed only by commands of the fetch step's fallback; and
\* the key staging, the SSH form of the URL and GIT_SSH_COMMAND are there
\* exactly when the secrets have a non-empty REPO_PRIVATE_KEY.
C27_DeployStepsInOrder ==
    (bpc = "executing" /\ breq.Method = MethodDeploy) =>
        LET hasKey == SecretOrEmpty(bsecrets, PrivateKeyName) # <<>>
        IN  /\ NamesInOrder(rtoks) = << <<"export">> >> \o DeployStepNames(hasKey)
            /\ \A n \in DOMAIN rlog : \A m \in 1..(n - 1) :
                  (rlog[m].rc # 0 /\ ~InFetch(rlog[m].at)) => InFetch(rlog[n].at)
            /\ hasKey <=> \E k \in DOMAIN rtoks : rtoks[k].asg = "GIT_SSH_COMMAND"
            /\ hasKey <=> \E k \in DOMAIN rtoks :
                              rtoks[k].t = "word" /\ Contains(rtoks[k].v, "git@github.com:")

\* requests whose repository, branch and commit hold a blank, a semicolon or
\* a quote; the environment is one the webhook's oneof rule lets through
InjectionRequests ==
    [ Method : {MethodDeploy, MethodCleanup},
      Repo : { <<"org/app">>, <<"org/app", " ", "/etc">>, <<"org/app", ";", "reboot">> },
      Branch : { <<"main">>, <<"main", ";", "reboot">>, <<"main", "'", " ", "x">> },
      Commit : { <<"abc123">>, <<"abc123", " ", "x">> },
      Environment : { <<"stage">> },
      PRNumber : { <<>>, <<"42">> },
      TraceID : { <<"t-1">> } ]

InjectionInit ==
    /\ breq \in InjectionRequests
    /\ bcfg \in {cfg \in BuildConfigs : cfg.BasePath # <<>>}
    /\ bsecrets \in { EmptyMap, [k \in {"DB_PASSWORD"} |-> PlainValue],
                      [k \in {"DB_PASSWORD", PrivateKeyName} |->
                          IF k = "DB_PASSWORD" THEN PlainValue ELSE PemKey] }
    /\ bpc = "ready"
    /\ command = <<>>
    /\ rebuilt = <<>>
    /\ sent = <<>>
    /\ setenv = <<>>
    /\ bret = "none"
    /\ bexec = NotExecuted
    /\ bout = <<>>

\* the same request with ordinary strings in the three fields
PlainRequest(rq) ==
    [rq EXCEPT !.Repo = <<"org/app">>, !.Branch = <<"main">>, !.Commit = <<"abc123">>]

\* the structure of a script: its operators, and for every word whether it
\* is an assignment (and of which name), without the words' values
Shape(toks) ==
    [k \in DOMAIN toks |->
        IF toks[k].t = "op" THEN toks[k]
        ELSE [t |-> toks[k].t, asg |-> toks[k].asg, v |-> <<>>]]

\* the operands of the remove steps
RemoveTargets(toks) ==
    { Tail(CommandWords(toks, k)) : k \in {j \in DOMAIN CommandNames(toks) : toks[j].v = <<"rm">>} }

\* C34: whatever the repository identifier, the branch and the commit hold,
\* the command has the structure it has for ordinary strings (the same
\* operators, words and assignments in the same places, the same command
\* names), and every remove step removes the run's temporary directory and
\* nothing else.
C34_RequestStringsKeepStructure ==
    (bpc = "returned" /\ sent # <<>>) =>
        LET toks == RemoteTokens(sent)
        IN  /\ \E order \in MapOrders(bsecrets) :
                 LET plain == RemoteTokens(ExecCommand(
                                  BuildCommand(PlainRequest(breq), bsecrets, bcfg, order)))
                 IN  /\ Shape(toks) = Shape(plain)
                     /\ NamesInOrder(toks) = NamesInOrder(plain)
            /\ RemoveTargets(toks) = { << <<"-rf">>, TmpDir(breq, bcfg) >> }

(***************************************************************************)
(* Part V: further properties                                              *)
(***************************************************************************)

\* the variables whose Setenv the transport rejected
Rejected == {key \in EnvVarNames \cup {"PATH"} : SetenvFailed(key) \in xwarn}

\* C29: whichever Setenv calls the transport rejects, Execute goes on from
\* the Setenv loop to start the goroutine without returning, the command is
\* then handed to session.CombinedOutput, and what Execute returns is what
\* CombinedOutput returned or the context's error.
C29_RejectedSetenvTolerated ==
    /\ [][(xpc = "exec" /\ xpc' # xpc) =>
              (xpc' = "select" /\ xgo' = "started" /\ xret' = xret)]_vars
    /\ []((xpc = "done" /\ Rejected # {}) =>
              xret \in {ExecuteReturn(0, "ctx"), ExecuteReturn(xres.output, xres.err)})
    /\ (xpc = "exec") ~> (xgo \notin {"none", "started"})

\* every Setenv, PATH included, was rejected, and Execute returned the
\* command's whole output and no error
C29_Witness ==
    /\ Rejected = EnvVarNames \cup {"PATH"}
    /\ xpc = "done"
    /\ xremote = "exit0"
    /\ xret = ExecuteReturn(MaxOut, "nil")

\* C23: whatever an earlier execution left in the workspace, a clone of the
\* deploy command's fetch step is started only with the workspace empty: no
\* deploy directory and nothing checked out.
C23_FetchStartsFromEmptyWorkspace ==
    [][ ( /\ breq.Method = MethodDeploy
          /\ rlog' # rlog
          /\ KindAt(rtoks, rip) \in {"clone-branch", "clone-no-checkout"} )
        => (~rdir /\ rrev = <<>>) ]_vars

(***************************************************************************)
(* Part VII: properties                                                    *)
(***************************************************************************)

\* C24: the workspaces of two runs for different (environment, repository)
\* pairs are different directories and neither lies below the other, and a
\* run that has fetched and not yet torn down still has its repo directory.
C24_WorkspacesDisjoint ==
    /\ \A r, q \in HostRuns :
          r # q => ~Under(HostTmpDir(r), HostTmpDir(q))
    /\ \A r \in HostRuns :
          hpc[r] \in {"script", "teardown"} => HostRepoDir(r) \in hfiles

(***************************************************************************)
(* Part VIII.  The HTTP front door                                         *)
(*                                                                         *)
(* POST /api/webhook/deploy is served by AuthMiddleware.Middleware wrapped *)
(* around WebhookHandler.HandleDeploy.  A request is its x-deploy-token    *)
(* header and its body; a body either decodes into a DeployRequestPayload  *)
(* or does not.                                                            *)
(***************************************************************************)

\* the requests the front door serves one after the other
MaxRequests == 2

\* cfg.Auth.DeployToken; Config.Validate refuses an empty one
deployToken == "s3cret"

HeaderTokens == {"", "guess", deployToken}

\* a payload that passes every validation
ValidPayload ==
    [ Title |-> "app", Repo |-> "org/app", Branch |-> "main", Commit |-> "abc123",
      Method |-> MethodDeploy,
      ProjectName |-> "proj", Component |-> "web", Environment |-> "stage",
      InjectSecretEnable |-> FALSE, InjectSecretProject |-> "",
      InjectSecretEnvironment |-> "", Secrets |-> <<>>,
      SetupDomainEnable |-> FALSE, SetupDomainTitle |-> "",
      SetupDomainName |-> "", SetupDomainValue |-> "",
      CleanupDomainEnable |-> FALSE, CleanupDomainName |-> "" ]

\* what a caller may put into one field instead
PayloadEdits ==
    { <<"Title", "">>, <<"Repo", "">>, <<"Branch", "">>, <<"Commit", "">>,
      <<"Method", "">>, <<"Method", "restart">>, <<"Method", MethodCleanup>>,
      <<"ProjectName", "">>, <<"Component", "">>,
      <<"Environment", "">>, <<"Environment", "qa">>, <<"Environment", "dev">>,
      <<"InjectSecretEnable", TRUE>>, <<"InjectSecretProject", "proj">>,
      <<"InjectSecretEnvironment", "prod">>,
      <<"Secrets", <<MappingDB>> >>, <<"Secrets", <<MappingNoEnvName>> >>,
      <<"SetupDomainEnable", TRUE>>, <<"SetupDomainTitle", "site">>,
      <<"SetupDomainName", "app.example.com">>, <<"SetupDomainName", "not a domain">>,
      <<"SetupDomainValue", "WEB_IP">>,
      <<"CleanupDomainEnable", TRUE>>, <<"CleanupDomainName", "app.example.com">>,
      <<"CleanupDomainName", "not a domain">> }

Edited(p, e) == [p EXCEPT ![e[1]] = e[2]]

\* an enabled secret injection and an enabled setup domain, each complete
InjectPayload ==
    [ValidPayload EXCEPT !.InjectSecretEnable = TRUE, !.InjectSecretProject = "proj",
                         !.InjectSecretEnvironment = "prod", !.Secrets = <<MappingDB>>]

DomainPayload ==
    [ValidPayload EXCEPT !.SetupDomainEnable = TRUE, !.SetupDomainTitle = "site",
                         !.SetupDomainName = "app.example.com",
                         !.SetupDomainValue = "WEB_IP"]

\* the payloads a body can decode into: the three above with one field edited
Payloads ==
    {ValidPayload, InjectPayload, DomainPayload}
      \cup { Edited(p, e) : p \in {ValidPayload, InjectPayload, DomainPayload},
                            e \in PayloadEdits }

\* a request body: json.Decoder.Decode fails on it or fills the payload
RequestBodies ==
    {[decodes |-> FALSE, payload |-> ValidPayload]}
      \cup {[decodes |-> TRUE, payload |-> p] : p \in Payloads}

HTTPRequests == [token : HeaderTokens, body : RequestBodies]

NoRequest == [token |-> "", body |-> [decodes |-> FALSE, payload |-> ValidPayload]]

\* the validator's fqdn rule on the names this model uses
IsFQDN(s) == s = "app.example.com"

\* h.validator.Struct(payload): the validate tags of DeployRequestPayload,
\* SourceInfo, MetadataInfo and DomainConfig.  The elements of Secrets are not
\* visited (the field has no dive tag).
StructValid(p) ==
    /\ p.Title # "" /\ p.Repo # "" /\ p.Branch # "" /\ p.Commit # ""
    /\ p.Method \in {MethodDeploy, MethodCleanup}
    /\ p.ProjectName # "" /\ p.Component # ""
    /\ p.Environment \in {"snapshot", "dev", "stage", "production"}
    /\ p.SetupDomainName = "" \/ IsFQDN(p.SetupDomainName)
    /\ p.CleanupDomainName = "" \/ IsFQDN(p.CleanupDomainName)

\* WebhookHandler.validateConditionalFields on the whole payload
ConditionalFieldsError(p) ==
    IF p.InjectSecretEnable /\ p.InjectSecretProject = ""
      THEN "project is required"
    ELSE IF p.InjectSecretEnable /\ p.InjectSecretEnvironment = ""
      THEN "environment is required"
    ELSE IF p.InjectSecretEnable /\ validateConditionalFields(p.Secrets) # NoErr
      THEN validateConditionalFields(p.Secrets)
    ELSE IF p.SetupDomainEnable /\ p.SetupDomainTitle = ""
      THEN "title is required"
    ELSE IF p.SetupDomainEnable /\ p.SetupDomainName = ""
      THEN "name is required"
    ELSE IF p.SetupDomainEnable /\ p.SetupDomainValue = ""
      THEN "value is required"
    ELSE IF p.CleanupDomainEnable /\ p.CleanupDomainName = ""
      THEN "name is required"
    ELSE NoErr

NothingWritten == [status |-> 0, body |-> "none"]

\* http.Error(w, msg, code)
HTTPError(code, msg) == [status |-> code, body |-> msg]

\* DeployResponse, encoded with status 202
DeployResponse(n) ==
    [ status |-> 202,
      body |-> [WorkflowID |-> <<"deploy-", n>>, RunID |-> <<"run-", n>>,
                TraceID |-> n, Status |-> "started"] ]

DoorInit ==
    /\ wreq = NoRequest
    /\ wpc = "Idle"
    /\ wresp = NothingWritten
    /\ wruns = <<>>
    /\ wn = 0

\* the server accepts the next request and hands it to the middleware
Receive ==
    /\ wpc \in {"Idle", "Responded"}
    /\ wn < MaxRequests
    /\ wreq' \in HTTPRequests
    /\ wn' = wn + 1
    /\ wresp' = NothingWritten
    /\ wpc' = "Middleware"
    /\ UNCHANGED wruns
    /\ UNCHANGED nonDoorVars

\* (mutation) a middleware that only asks for some token
Middleware_AnyToken ==
    /\ wpc = "Middleware"
    /\ IF wreq.token = ""
         THEN /\ wresp' = HTTPError(401, "Unauthorized: missing deploy token")
              /\ wpc' = "Responded"
         ELSE /\ wpc' = "HandleDeploy"
              /\ UNCHANGED wresp
    /\ UNCHANGED <<wreq, wruns, wn>>
    /\ UNCHANGED nonDoorVars

\* AuthMiddleware.Middleware
Middleware ==
    /\ wpc = "Middleware"
    /\ IF wreq.token = ""
         THEN /\ wresp' = HTTPError(401, "Unauthorized: missing deploy token")
              /\ wpc' = "Responded"
         ELSE IF wreq.token # deployToken
           THEN /\ wresp' = HTTPError(401, "Unauthorized: invalid deploy token")
                /\ wpc' = "Responded"
           ELSE /\ wpc' = "HandleDeploy"
                /\ UNCHANGED wresp
    /\ UNCHANGED <<wreq, wruns, wn>>
    /\ UNCHANGED nonDoorVars

\* WebhookHandler.HandleDeploy.  ExecuteWorkflow either reports an error or
\* returns the started run; the handler never waits for the run.
HandleDeploy ==
    /\ wpc = "HandleDeploy"
    /\ wpc' = "Responded"
    /\ IF ~wreq.body.decodes
         THEN /\ wresp' = HTTPError(400, "Invalid request body")
              /\ UNCHANGED wruns
         ELSE IF ~StructValid(wreq.body.payload)
           THEN /\ wresp' = HTTPError(400, "Validation failed")
                /\ UNCHANGED wruns
         ELSE IF ConditionalFieldsError(wreq.body.payload) # NoErr
           THEN /\ wresp' = HTTPError(400, "Validation failed")
                /\ UNCHANGED wruns
         ELSE \/ /\ wresp' = HTTPError(500, "Failed to start workflow")
                 /\ UNCHANGED wruns
              \/ /\ wruns' = Append(wruns, [ id |-> <<"deploy-", wn>>, by |-> wn,
                                             request |-> wreq, state |-> "Running" ])
                 /\ wresp' = DeployResponse(wn)
    /\ UNCHANGED <<wreq, wn>>
    /\ UNCHANGED nonDoorVars

\* a started run reaches its final outcome, whenever that is
RunFinishes ==
    \E i \in DOMAIN wruns, final \in {"Done", "Failed"} :
        /\ wruns[i].state = "Running"
        /\ wruns' = [wruns EXCEPT ![i].state = final]
        /\ UNCHANGED <<wreq, wpc, wresp, wn>>
        /\ UNCHANGED nonDoorVars

DoorNext == Receive \/ Middleware \/ HandleDeploy \/ RunFinishes

(***************************************************************************)
(* Part VIII: properties                                                   *)
(***************************************************************************)

\* the request passes the three checks of the handler
Acceptable(r) ==
    /\ r.body.decodes
    /\ StructValid(r.body.payload)
    /\ ConditionalFieldsError(r.body.payload) = NoErr

RunsBy(n) == {i \in DOMAIN wruns : wruns[i].by = n}

\* C31: every run was started by a request that carried the configured
\* deploy token, decoded, and passed the structural and the conditional
\* validation; a request answered with an error started no run; and an
\* accepted request is answered 202 with the identifiers of its one run and
\* the status "started", the same whether the run is still running or has
\* finished since.
C31_RunsOnlyForAcceptedRequests ==
    /\ \A i \in DOMAIN wruns :
          /\ wruns[i].request.token = deployToken
          /\ Acceptable(wruns[i].request)
    /\ (wpc = "Responded" /\ wresp.status # 202) =>
          /\ wresp.status \in {400, 401, 500}
          /\ RunsBy(wn) = {}
    /\ (wpc = "Responded" /\ wresp.status \in {400, 401}) =>
          ~(wreq.token = deployToken /\ Acceptable(wreq))
    /\ (wpc = "Responded" /\ wresp.status = 202) =>
          /\ wreq.token = deployToken /\ Acceptable(wreq)
          /\ Cardinality(RunsBy(wn)) = 1
          /\ \A i \in RunsBy(wn) : wresp.body.WorkflowID = wruns[i].id
          /\ wresp.body.Status = "started"
          /\ DOMAIN wresp.body = {"WorkflowID", "RunID", "TraceID", "Status"}
    /\ wpc \in {"Middleware", "HandleDeploy"} => RunsBy(wn) = {}

\* the second request was rejected for its token after the first, accepted,
\* had been answered "started" and its run has since failed
C31_Witness ==
    /\ wn = 2
    /\ wpc = "Responded"
    /\ wresp.status = 401
    /\ wreq.token = "guess"
    /\ Acceptable(wreq)
    /\ Len(wruns) = 1
    /\ wruns[1].by = 1
    /\ wruns[1].state = "Failed"

WfIdle ==
    /\ req = [ Method |-> MethodDeploy, InjectSecretEnable |-> FALSE,
               SetupDomainEnable |-> FALSE, SetupDomainName |-> "", SetupDomainValue |-> "",
               CleanupDomainEnable |-> FALSE, CleanupDomainName |-> "",
               NotifyDiscordEnable |-> FALSE ]
    /\ pc = "Start"
    /\ outcome = [a \in Activities |-> "none"]
    /\ attempt = [a \in Activities |-> 0]
    /\ running = {}
    /\ calls = <<>>
    /\ starts = <<>>
    /\ result = "none"

BuildIdle ==
    /\ breq = <<>>
    /\ bcfg = <<>>
    /\ bsecrets = <<>>
    /\ bpc = "idle"
    /\ command = <<>>
    /\ rebuilt = <<>>
    /\ sent = <<>>
    /\ setenv = <<>>
    /\ bret = "none"
    /\ bexec = NotExecuted
    /\ bout = <<>>

RemoteIdle ==
    /\ rtoks = <<>>
    /\ rip = 1
    /\ rrc = 0
    /\ rlog = <<>>
    /\ rtip = <<>>
    /\ rdir = FALSE
    /\ rrev = <<>>
    /\ rscript = <<>>
    /\ rstate = "idle"

ExecIdle ==
    /\ xfile = <<>>
    /\ xenv = ""
    /\ xknown = "listed"
    /\ xstrict = TRUE
    /\ xverify = "none"
    /\ xwarn = {}
    /\ xpc = "idle"
    /\ xconn = "none"
    /\ xsess = "none"
    /\ xctx = "active"
    /\ xgo = "none"
    /\ xres = NoResult
    /\ xchan = <<>>
    /\ xremote = "none"
    /\ xout = 0
    /\ xcap = 0
    /\ xret = NoResult

HostIdle ==
    /\ hreq = <<>>
    /\ hpc = <<>>
    /\ hfiles = {}

DoorIdle ==
    /\ wreq = <<>>
    /\ wpc = "Idle"
    /\ wresp = <<>>
    /\ wruns = <<>>
    /\ wn = 0

\* ---- the sequencer ----

Init == WfInit /\ CacheIdle /\ BuildIdle /\ RemoteIdle /\ ExecIdle /\ DnsIdle /\ HostIdle /\ DoorIdle

Next == WfNext

Spec == Init /\ [][Next]_vars

\* ---- the secret cache ----

CacheSpecInit == WfIdle /\ CacheInit /\ BuildIdle /\ RemoteIdle /\ ExecIdle /\ DnsIdle /\ HostIdle /\ DoorIdle

CacheSpec == CacheSpecInit /\ [][CacheNext]_vars

\* ---- the secret cache, for requests with clashing mappings ----

RepeatedEnvNameSpec == CacheSpecInit /\ [][RepeatedEnvNameNext]_vars

SameKeySpec == CacheSpecInit /\ [][SameKeyNext]_vars

\* ---- the remote command builder ----

BuildSpecInit == WfIdle /\ CacheIdle /\ BuildInit /\ RemoteIdle /\ ExecIdle /\ DnsIdle /\ HostIdle /\ DoorIdle

BuildSpec == BuildSpecInit /\ [][BuildNext]_vars

\* ---- RunSSHDeploy over every captured output ----

ClassifyInit ==
    /\ BuildInit
    /\ MissingField(breq, bcfg) = ""
    /\ bsecrets = EmptyMap

ClassifyNext == RunSSHDeploy_AnyOutput

ClassifySpecInit == WfIdle /\ CacheIdle /\ ClassifyInit /\ RemoteIdle /\ ExecIdle /\ DnsIdle /\ HostIdle /\ DoorIdle

ClassifySpec == ClassifySpecInit /\ [][ClassifyNext]_vars

\* ---- the remote host ----

RemoteSpecInit == WfIdle /\ CacheIdle /\ RemoteInit /\ ExecIdle /\ DnsIdle /\ HostIdle /\ DoorIdle

RemoteSpec == RemoteSpecInit /\ [][RemoteNext]_vars

\* ---- one call of Execute ----

ExecSpecInit == WfIdle /\ CacheIdle /\ BuildIdle /\ RemoteIdle /\ ExecInit /\ DnsIdle /\ HostIdle /\ DoorIdle

ExecSpec == ExecSpecInit /\ [][ExecNext]_vars

\* The Go scheduler keeps running the caller and the goroutine while they can
\* take a step, and the activity's context has a deadline
\* (StartToCloseTimeout).  Nothing makes the remote command write or exit.
ExecFairSpec ==
    /\ ExecSpec
    /\ WF_vars(CallerStep /\ UNCHANGED nonExecVars)
    /\ WF_vars(GoStep /\ UNCHANGED nonExecVars)
    /\ WF_vars(CtxDone /\ UNCHANGED nonExecVars)

\* ---- the DNS step of a run ----

DnsSpecInit == WfInit /\ CacheIdle /\ BuildIdle /\ RemoteIdle /\ ExecIdle /\ DnsInit /\ HostIdle /\ DoorIdle

DnsSpec == DnsSpecInit /\ [][DnsNext]_vars

\* ---- repeated calls of EnsureRecord ----

EnsureSpecInit == WfIdle /\ CacheIdle /\ BuildIdle /\ RemoteIdle /\ ExecIdle /\ EnsureInit /\ HostIdle /\ DoorIdle

EnsureSpec == EnsureSpecInit /\ [][EnsureNext]_vars

\* ---- two runs on the remote host ----

HostSpecInit ==
    WfIdle /\ CacheIdle /\ BuildIdle /\ RemoteIdle /\ ExecIdle /\ DnsIdle /\ HostInit /\ DoorIdle

HostSpec == HostSpecInit /\ [][HostNext]_vars

\* ---- the builder with secrets named like metadata variables ----

MetadataNameSpecInit ==
    WfIdle /\ CacheIdle /\ MetadataNameInit /\ RemoteIdle /\ ExecIdle /\ DnsIdle /\ HostIdle
      /\ DoorIdle

MetadataNameSpec == MetadataNameSpecInit /\ [][BuildNext]_vars

\* ---- the builder with shell metacharacters in the request ----

InjectionSpecInit ==
    WfIdle /\ CacheIdle /\ InjectionInit /\ RemoteIdle /\ ExecIdle /\ DnsIdle /\ HostIdle
      /\ DoorIdle

InjectionSpec == InjectionSpecInit /\ [][BuildNext]_vars

\* ---- the HTTP front door ----

DoorSpecInit ==
    WfIdle /\ CacheIdle /\ BuildIdle /\ RemoteIdle /\ ExecIdle /\ DnsIdle /\ HostIdle
      /\ DoorInit

DoorSpec == DoorSpecInit /\ [][DoorNext]_vars

\* Every activity attempt returns or times out (StartToCloseTimeout) and the
\* engine keeps scheduling the workflow and its pending activities.
FairSpec == Spec /\ WF_vars(Next)

====
